---- MODULE Spec2Model ----
(***************************************************************************)
(* Retrieval orchestrator of the RAG service (src/app/modular_rag.py) and  *)
(* the vector-store wrapper it queries (src/app/database.py).              *)
(*                                                                         *)
(* A Python str is a sequence of one-character strings, so that lower(),   *)
(* split(), len() and the substring test `w in s` are computed, not        *)
(* assumed.  The elements of a Python list are tagged values               *)
(* [py |-> "str" | "list" | "dict", v |-> ...]; a Python list itself is a  *)
(* TLA+ sequence of such values.                                           *)
(***************************************************************************)
EXTENDS Integers, Sequences, FiniteSets, TLC

VARIABLES
    pc,               \* position of the one call of execute_rag being followed
    question,         \* argument question
    strategy,         \* argument strategy: the tag as passed, then the enum member
    top_k,            \* kwargs['top_k']
    broad_top_k,      \* _hierarchical_rag's broad_top_k
    final_top_k,      \* _hierarchical_rag's final_top_k
    keywords,         \* _hybrid_rag's local keywords
    semantic_results, \* _hybrid_rag's local semantic_results
    calls,            \* the vector_db.search calls made so far, in order
    question_complexity, \* _adaptive_rag's local question_complexity
    result,           \* the dict returned by execute_rag
    error,            \* the exception execute_rag raised, "" if none
    redis,            \* the lists held by the Redis server, by key
    conversation_history, \* ConversationMemory._conversation_history
    now,              \* the clock datetime.now() reads
    session_id,       \* argument session_id of the handler or memory operation
    limit,            \* argument limit of get_conversation_history
    history,          \* what get_conversation_history returned, per backend
    store_calls,      \* the store_conversation calls of the request, in order
    prompt,           \* argument prompt of generate_response
    attempt,          \* generate_response's loop variable attempt
    sleeps,           \* the arguments of the time.sleep calls so far, in order
    answer,           \* what generate_response returned
    model_calls,      \* what the attempts of generate_response did, in order
    llm_calls,        \* the generate_response calls of the request, in order
    endpoint,         \* the path the request was posted to
    body,             \* the JSON body of the request
    query_request,    \* the handler's argument query_request
    status,           \* the HTTP status of the response, 0 before it is sent
    response,         \* the body of the response
    metrics,          \* the PerformanceMetrics instance of src/app/main.py
    completed,        \* status and process time of the requests answered so far
    call_next,        \* what call_next(request) did in the middleware
    tasks             \* the concurrent callers of the conversation memory

\* the variables of ModularRAG.execute_rag
ragVars == <<question, strategy, top_k, broad_top_k, final_top_k, keywords,
             semantic_results, calls, question_complexity, result, error>>

\* the variables of the conversation memory
memVars == <<redis, conversation_history, now, session_id, limit, history,
             store_calls>>

\* the variables of GeminiClient.generate_response
llmVars == <<prompt, attempt, sleeps, answer, model_calls, llm_calls>>

\* the variables of the request handlers
httpVars == <<endpoint, body, query_request, status, response>>

\* the variables of the metrics and of the middleware that records them
metricsVars == <<metrics, completed, call_next>>

vars == <<pc, question, strategy, top_k, broad_top_k, final_top_k, keywords,
          semantic_results, calls, question_complexity, result, error,
          redis, conversation_history, now, session_id, limit, history,
          store_calls, prompt, attempt, sleeps, answer, model_calls, llm_calls,
          endpoint, body, query_request, status, response,
          metrics, completed, call_next, tasks>>

(***************************************************************************)
(* Bounds of the model.                                                    *)
(***************************************************************************)
MaxWords == 2      \* words of a question passed to execute_rag
MaxTopK == 2       \* top_k ranges over 1..MaxTopK
MaxKwPieces == 6   \* pieces of a question given to _extract_keywords alone
MaxCxWords == 2    \* words of a question given to the classifier alone
MaxTurns == 11     \* calls of store_conversation in one behaviour of the memory
MaxOtherTurns == 2 \* the first calls of them, which may name another session than s1
MaxStored == 10    \* appends made before the concurrent callers start
MaxRequests == 101 \* requests answered in one behaviour of the service
MaxVariedRequests == 2 \* the first of them, which may fail or take longer

(***************************************************************************)
(* Python str operations.                                                  *)
(***************************************************************************)
Whitespace == {" ", "\t", "\n"}

UpperToLower ==
    ("A" :> "a") @@ ("B" :> "b") @@ ("C" :> "c") @@ ("D" :> "d") @@
    ("E" :> "e") @@ ("F" :> "f") @@ ("G" :> "g") @@ ("H" :> "h") @@
    ("I" :> "i") @@ ("J" :> "j") @@ ("K" :> "k") @@ ("L" :> "l") @@
    ("M" :> "m") @@ ("N" :> "n") @@ ("O" :> "o") @@ ("P" :> "p") @@
    ("Q" :> "q") @@ ("R" :> "r") @@ ("S" :> "s") @@ ("T" :> "t") @@
    ("U" :> "u") @@ ("V" :> "v") @@ ("W" :> "w") @@ ("X" :> "x") @@
    ("Y" :> "y") @@ ("Z" :> "z")

\* str.lower()
Lower(s) ==
    [i \in 1..Len(s) |->
        IF s[i] \in DOMAIN UpperToLower THEN UpperToLower[s[i]] ELSE s[i]]

\* str.split() with no separator: the maximal runs of non-whitespace
\* characters, left to right.  cur is the token being read.
RECURSIVE SplitFrom(_, _, _)
SplitFrom(s, i, cur) ==
    IF i > Len(s)
    THEN IF cur = <<>> THEN <<>> ELSE <<cur>>
    ELSE IF s[i] \in Whitespace
         THEN IF cur = <<>>
              THEN SplitFrom(s, i + 1, <<>>)
              ELSE <<cur>> \o SplitFrom(s, i + 1, <<>>)
         ELSE SplitFrom(s, i + 1, Append(cur, s[i]))

Split(s) == SplitFrom(s, 1, <<>>)

\* w in s, for two str
IsSubstr(w, s) ==
    \E i \in 0..(Len(s) - Len(w)) : SubSeq(s, i + 1, i + Len(w)) = w

\* " ".join(words)
RECURSIVE Join(_)
Join(words) ==
    IF words = <<>> THEN <<>>
    ELSE IF Len(words) = 1 THEN words[1]
    ELSE words[1] \o <<" ">> \o Join(Tail(words))

\* "".join(pieces)
RECURSIVE Concat(_)
Concat(pieces) ==
    IF pieces = <<>> THEN <<>> ELSE pieces[1] \o Concat(Tail(pieces))

(***************************************************************************)
(* Python values held in lists.                                            *)
(***************************************************************************)
PyStr(s) == [py |-> "str", v |-> s]
PyList(xs) == [py |-> "list", v |-> xs]
PyDict(id) == [py |-> "dict", v |-> id]

\* seq[:n] for n >= 0
Take(seq, n) == SubSeq(seq, 1, IF n < Len(seq) THEN n ELSE Len(seq))

(***************************************************************************)
(* RAGStrategy and the strategy tags a caller may pass.                    *)
(***************************************************************************)
basic == <<"b","a","s","i","c">>
hierarchical == <<"h","i","e","r","a","r","c","h","i","c","a","l">>
hybrid == <<"h","y","b","r","i","d">>
adaptive == <<"a","d","a","p","t","i","v","e">>

\* the values of the enumeration RAGStrategy
RAGStrategyValues == {basic, hierarchical, hybrid, adaptive}

\* a member of RAGStrategy, and a plain str
Member(value) == [isStr |-> FALSE, value |-> value]
StrTag(s) == [isStr |-> TRUE, value |-> s]

\* the keys of ModularRAG.strategies
strategies == {Member(v) : v \in RAGStrategyValues}

(***************************************************************************)
(* The vector store: chromadb's collection.query is outside the            *)
(* repository; it answers a query of width n with at most n records of the *)
(* collection, in its own order, or raises.                                *)
(***************************************************************************)
\* The collection: three records; the first and the third hold the same
\* text under different metadata.
Corpus ==
    << [text |-> <<"W","h","a","t"," ","D","a","t","a">>, meta |-> "m1"],
       [text |-> <<"s","h","o","w"," ","w","h","y"," ","d","a","t","a">>,
        meta |-> "m2"],
       [text |-> <<"W","h","a","t"," ","D","a","t","a">>, meta |-> "m3"] >>

\* the sequences of distinct records of the collection, by index
HitSeqs ==
    {h \in UNION {[1..n -> 1..Len(Corpus)] : n \in 0..Len(Corpus)} :
        \A i, j \in 1..Len(h) : i # j => h[i] # h[j]}

\* what collection.query(n_results = n) can do
QueryOutcomes(n) ==
    {[exc |-> TRUE, hits |-> <<>>]} \cup
    {[exc |-> FALSE, hits |-> h] : h \in {g \in HitSeqs : Len(g) <= n}}

\* the documents and the metadata of the records a query outcome names
HitDocs(raw) == [i \in 1..Len(raw.hits) |-> PyStr(Corpus[raw.hits[i]].text)]
HitMetas(raw) == [i \in 1..Len(raw.hits) |-> PyDict(Corpus[raw.hits[i]].meta)]

\* VectorDatabase.search: the query's result, or the empty dict of the
\* except branch
Search(raw) ==
    IF raw.exc
    THEN [documents |-> <<>>, metadatas |-> <<>>]
    ELSE [documents |-> <<PyList(HitDocs(raw))>>,
          metadatas |-> <<PyList(HitMetas(raw))>>]

NoFilter == [given |-> FALSE, or |-> <<>>]

\* one call of vector_db.search, as logged in calls
SearchCall(query, n, filter, raw) ==
    [query |-> query, top_k |-> n, filter_metadata |-> filter, raw |-> raw]

(***************************************************************************)
(* ModularRAG                                                              *)
(***************************************************************************)
NoResult ==
    [documents |-> <<>>, metadatas |-> <<>>, strategy |-> "", search_type |-> ""]

\* the score _rerank_documents gives doc: the tokens of the lowercased
\* question (repetitions counted) that occur in the lowercased document
Score(q, doc) ==
    LET words == Split(Lower(q)) IN
    Cardinality({i \in 1..Len(words) : IsSubstr(words[i], Lower(doc.v))})

\* a sort that puts an item before the items of its own score
RECURSIVE InsertByScoreTiesFirst(_, _)
InsertByScoreTiesFirst(sorted, item) ==
    IF sorted = <<>> THEN <<item>>
    ELSE IF Head(sorted).score > item.score
         THEN <<Head(sorted)>> \o InsertByScoreTiesFirst(Tail(sorted), item)
         ELSE <<item>> \o sorted

\* list.sort(key = score, reverse = True) is stable: an item goes behind
\* every item whose score is at least its own.
RECURSIVE InsertByScore(_, _)
InsertByScore(sorted, item) ==
    IF sorted = <<>> THEN <<item>>
    ELSE IF Head(sorted).score >= item.score
         THEN <<Head(sorted)>> \o InsertByScore(Tail(sorted), item)
         ELSE <<item>> \o sorted

RECURSIVE SortByScore(_)
SortByScore(scored) ==
    IF scored = <<>> THEN <<>>
    ELSE InsertByScore(SortByScore(SubSeq(scored, 1, Len(scored) - 1)),
                       scored[Len(scored)])

\* _rerank_documents
RerankDocuments(q, documents) ==
    LET scored_docs ==
            [i \in 1..Len(documents) |->
                [score |-> Score(q, documents[i]), doc |-> documents[i]]]
        sorted == SortByScore(scored_docs)
    IN [i \in 1..Len(sorted) |-> sorted[i].doc]

\* _basic_rag with the documents reranked as _hierarchical_rag reranks them
BasicRagReranked(q, k, raw) ==
    LET results == Search(raw) IN
    [documents |-> IF results.documents # <<>>
                   THEN RerankDocuments(q, results.documents[1].v) ELSE <<>>,
     metadatas |-> IF results.metadatas # <<>>
                   THEN results.metadatas[1].v ELSE <<>>,
     strategy |-> "basic",
     search_type |-> "semantic"]

\* _basic_rag, given what the store's query did
BasicRag(q, k, raw) ==
    LET results == Search(raw) IN
    [documents |-> IF results.documents # <<>>
                   THEN results.documents[1].v ELSE <<>>,
     metadatas |-> IF results.metadatas # <<>>
                   THEN results.metadatas[1].v ELSE <<>>,
     strategy |-> "basic",
     search_type |-> "semantic"]

\* _hierarchical_rag with the metadata left untruncated
HierarchicalRagAllMetas(q, broad, final, raw) ==
    LET broad_results == Search(raw) IN
    IF broad_results.documents = <<>>
    THEN [documents |-> <<>>, metadatas |-> <<>>,
          strategy |-> "hierarchical", search_type |-> "two_stage"]
    ELSE LET reranked_docs == RerankDocuments(q, broad_results.documents[1].v)
         IN [documents |-> Take(reranked_docs, final),
             metadatas |-> IF broad_results.metadatas # <<>>
                           THEN broad_results.metadatas[1].v
                           ELSE <<>>,
             strategy |-> "hierarchical",
             search_type |-> "two_stage"]

\* _hierarchical_rag without the cut to final_top_k
HierarchicalRagUncut(q, broad, final, raw) ==
    LET broad_results == Search(raw) IN
    IF broad_results.documents = <<>>
    THEN [documents |-> <<>>, metadatas |-> <<>>,
          strategy |-> "hierarchical", search_type |-> "two_stage"]
    ELSE [documents |-> RerankDocuments(q, broad_results.documents[1].v),
          metadatas |-> IF broad_results.metadatas # <<>>
                        THEN broad_results.metadatas[1].v
                        ELSE <<>>,
          strategy |-> "hierarchical",
          search_type |-> "two_stage"]

\* _hierarchical_rag, given what the store's query did
HierarchicalRag(q, broad, final, raw) ==
    LET broad_results == Search(raw) IN
    IF broad_results.documents = <<>>
    THEN [documents |-> <<>>, metadatas |-> <<>>,
          strategy |-> "hierarchical", search_type |-> "two_stage"]
    ELSE LET reranked_docs == RerankDocuments(q, broad_results.documents[1].v)
         IN [documents |-> Take(reranked_docs, final),
             metadatas |-> IF broad_results.metadatas # <<>>
                           THEN Take(broad_results.metadatas[1].v, final)
                           ELSE <<>>,
             strategy |-> "hierarchical",
             search_type |-> "two_stage"]

stop_words ==
    { <<"w","h","a","t">>, <<"i","s">>, <<"t","h","e">>, <<"a">>, <<"a","n">>,
      <<"i","n">>, <<"o","n">>, <<"a","t">>, <<"t","o">>, <<"f","o","r">>,
      <<"o","f">>, <<"w","i","t","h">>, <<"b","y">> }

\* _extract_keywords cutting to five tokens before it filters
ExtractKeywordsCutFirst(q) ==
    LET words == Take(Split(Lower(q)), 5)
        Keep(word) == Len(word) > 3 /\ word \notin stop_words
    IN SelectSeq(words, Keep)

\* _extract_keywords without the stopword test
ExtractKeywordsKeepStopWords(q) ==
    LET words == Split(Lower(q))
        Keep(word) == Len(word) > 3
    IN Take(SelectSeq(words, Keep), 5)

\* _extract_keywords
ExtractKeywords(q) ==
    LET words == Split(Lower(q))
        Keep(word) == Len(word) > 3 /\ word \notin stop_words
    IN Take(SelectSeq(words, Keep), 5)

\* the filter _keyword_search builds
KeywordFilter(kws) ==
    [given |-> TRUE,
     or |-> [i \in 1..Len(kws) |-> [field |-> "title", in |-> kws]] \o
            [i \in 1..Len(kws) |-> [field |-> "abstract", in |-> kws]]]

\* _keyword_search: vector_db.search raises nothing, so the except branch
\* is never taken and the search's dict is returned
KeywordSearch(kws, k, raw) == Search(raw)

\* the two loops of _merge_results over zip(docs, metas): the pairs already
\* merged, then the pair at i when its text is new (and, in the second
\* loop, the cap allows)
RECURSIVE MergeLoop(_, _, _, _, _, _)
MergeLoop(docs, metas, i, merged, capped, cap) ==
    IF i > Len(docs) \/ i > Len(metas) THEN merged
    ELSE LET seen == {merged[j].doc : j \in 1..Len(merged)}
             add == docs[i] \notin seen /\ (~capped \/ Len(merged) < cap)
         IN MergeLoop(docs, metas, i + 1,
                      IF add
                      THEN Append(merged, [doc |-> docs[i], meta |-> metas[i]])
                      ELSE merged,
                      capped, cap)

\* a cap of the merged count at the length of the first list
MergeCapFirst(docs1, docs2) == Len(docs1)

\* len(docs1) + len(docs2), the cap of the merged count in the second loop
MergeCap(docs1, docs2) == Len(docs1) + Len(docs2)

\* _merge_results: results.get(key, [[]])[0] raises IndexError on an empty
\* list
MergeResults(results1, results2) ==
    IF \/ results1.documents = <<>> \/ results2.documents = <<>>
       \/ results1.metadatas = <<>> \/ results2.metadatas = <<>>
    THEN [error |-> "IndexError", value |-> [documents |-> <<>>, metadatas |-> <<>>]]
    ELSE LET docs1 == results1.documents[1].v
             docs2 == results2.documents[1].v
             metas1 == results1.metadatas[1].v
             metas2 == results2.metadatas[1].v
             cap == MergeCap(docs1, docs2)
             first == MergeLoop(docs1, metas1, 1, <<>>, FALSE, cap)
             merged == MergeLoop(docs2, metas2, 1, first, TRUE, cap)
         IN [error |-> "",
             value |->
                [documents |-> <<PyList([i \in 1..Len(merged) |-> merged[i].doc])>>,
                 metadatas |-> <<PyList([i \in 1..Len(merged) |-> merged[i].meta])>>]]

simple_indicators ==
    { <<"w","h","a","t">>, <<"w","h","o">>, <<"w","h","e","n">>,
      <<"w","h","e","r","e">> }

complex_indicators ==
    { <<"h","o","w">>, <<"w","h","y">>, <<"c","o","m","p","a","r","e">>,
      <<"d","i","f","f","e","r","e","n","c","e">>,
      <<"a","d","v","a","n","t","a","g","e","s">>,
      <<"d","i","s","a","d","v","a","n","t","a","g","e","s">> }

\* _assess_question_complexity testing the simple indicators first
AssessMediumFirst(q) ==
    LET question_lower == Lower(q) IN
    IF \E indicator \in simple_indicators : IsSubstr(indicator, question_lower)
    THEN "medium"
    ELSE IF \E indicator \in complex_indicators : IsSubstr(indicator, question_lower)
         THEN "complex"
         ELSE "simple"

\* _assess_question_complexity
AssessQuestionComplexity(q) ==
    LET question_lower == Lower(q) IN
    IF \E indicator \in complex_indicators : IsSubstr(indicator, question_lower)
    THEN "complex"
    ELSE IF \E indicator \in simple_indicators : IsSubstr(indicator, question_lower)
         THEN "medium"
         ELSE "simple"

(***************************************************************************)
(* The arguments a caller passes to execute_rag.                           *)
(***************************************************************************)
\* the sequences over S of length lo..hi
SeqsOf(S, lo, hi) == UNION {[1..n -> S] : n \in lo..hi}

Words == { <<"W","h","a","t">>, <<"S","h","o","w">>, <<"d","a","t","a">> }

Questions == {Join(ws) : ws \in SeqsOf(Words, 0, MaxWords)}

NoneTag == [isStr |-> FALSE, value |-> <<"N","o","n","e">>]

Tags ==
    {StrTag(v) : v \in RAGStrategyValues} \cup
    {Member(v) : v \in RAGStrategyValues} \cup
    { StrTag(<<"B","A","S","I","C">>), StrTag(<<"H","y","b","r","i","d">>),
      StrTag(<<"n","o","n","s","e","n","s","e">>), StrTag(<<>>), NoneTag }

(***************************************************************************)
(* One call of execute_rag, step by step; each query of the store is a     *)
(* step.                                                                   *)
(***************************************************************************)
\* a dict with no key (also: a Redis server holding no key)
EmptyDict == [k \in {} |-> <<>>]

NoHistory == [redis |-> <<>>, memory |-> <<>>]

NoPrompt == [template |-> "", question |-> <<>>]

NoBody ==
    [question |-> <<>>, top_k |-> 0, strategy |-> [given |-> FALSE, value |-> <<>>]]

NoQueryRequest == [question |-> <<>>, top_k |-> 0, strategy |-> <<>>]

NoResponse ==
    [answer |-> "", sources |-> <<>>, context |-> <<>>, strategy |-> <<>>,
     detail |-> ""]

\* ModularRAG() holds no state; no call of execute_rag is under way
RagIdle ==
    /\ question = <<>>
    /\ strategy = Member(basic)
    /\ top_k = 0
    /\ broad_top_k = 0
    /\ final_top_k = 0
    /\ keywords = <<>>
    /\ semantic_results = [documents |-> <<>>, metadatas |-> <<>>]
    /\ calls = <<>>
    /\ question_complexity = ""
    /\ result = NoResult
    /\ error = ""

\* ConversationMemory.__init__: nothing is stored
MemIdle ==
    /\ redis = EmptyDict
    /\ conversation_history = EmptyDict
    /\ now = 0
    /\ session_id = ""
    /\ limit = 0
    /\ history = NoHistory
    /\ store_calls = <<>>

\* no call of generate_response is under way
LlmIdle ==
    /\ prompt = NoPrompt
    /\ attempt = 0
    /\ sleeps = <<>>
    /\ answer = ""
    /\ model_calls = <<>>
    /\ llm_calls = <<>>

\* no request is being handled
HttpIdle ==
    /\ endpoint = ""
    /\ body = NoBody
    /\ query_request = NoQueryRequest
    /\ status = 0
    /\ response = NoResponse

\* PerformanceMetrics.__init__
NewMetrics == [request_times |-> <<>>, error_count |-> 0, success_count |-> 0]

\* no request was counted, and no one calls the conversation memory
MetricsIdle ==
    /\ metrics = NewMetrics
    /\ completed = <<>>
    /\ call_next = ""
    /\ tasks = EmptyDict

Init ==
    /\ pc = "idle"
    /\ MemIdle
    /\ LlmIdle
    /\ HttpIdle
    /\ MetricsIdle
    /\ question = <<>>
    /\ strategy = Member(basic)
    /\ top_k = 0
    /\ broad_top_k = 0
    /\ final_top_k = 0
    /\ keywords = <<>>
    /\ semantic_results = [documents |-> <<>>, metadatas |-> <<>>]
    /\ calls = <<>>
    /\ question_complexity = ""
    /\ result = NoResult
    /\ error = ""

\* modular_rag.execute_rag(question = q, strategy = t, top_k = k) is entered
Call(q, t, k) ==
    /\ pc = "idle"
    /\ pc' = "execute_rag"
    /\ question' = q
    /\ strategy' = t
    /\ top_k' = k
    /\ UNCHANGED <<broad_top_k, final_top_k, keywords, semantic_results, calls,
                   question_complexity, result, error>>
    /\ UNCHANGED <<memVars, llmVars, httpVars>>
    /\ UNCHANGED <<metricsVars, tasks>>

\* execute_rag falling back to basic retrieval on an unknown tag
ResolveFallback(t) ==
    IF t.isStr
    THEN IF Lower(t.value) \in RAGStrategyValues
         THEN [error |-> "", strategy |-> Member(Lower(t.value))]
         ELSE [error |-> "", strategy |-> Member(basic)]
    ELSE IF t \notin strategies
         THEN [error |-> "", strategy |-> Member(basic)]
         ELSE [error |-> "", strategy |-> t]

\* RAGStrategy(strategy.lower()) of a str, which raises ValueError when the
\* lowercased tag is no value of the enumeration; then the test
\* strategy not in self.strategies
Resolve(t) ==
    IF t.isStr
    THEN IF Lower(t.value) \in RAGStrategyValues
         THEN [error |-> "", strategy |-> Member(Lower(t.value))]
         ELSE [error |-> "ValueError", strategy |-> t]
    ELSE IF t \notin strategies
         THEN [error |-> "ValueError", strategy |-> t]
         ELSE [error |-> "", strategy |-> t]

\* the function execute_rag hands the call to
Dispatch(s) ==
    IF s = Member(hierarchical) THEN "_hierarchical_rag"
    ELSE IF s = Member(basic) THEN "_basic_rag"
    ELSE IF s = Member(hybrid) THEN "_hybrid_rag"
    ELSE "_adaptive_rag"

\* the body of execute_rag up to the call of the strategy's function
ExecuteRag ==
    /\ pc = "execute_rag"
    /\ LET r == Resolve(strategy) IN
       /\ strategy' = r.strategy
       /\ error' = r.error
       /\ pc' = IF r.error # "" THEN "raised" ELSE Dispatch(r.strategy)
       /\ broad_top_k' =
            IF r.error = "" /\ r.strategy = Member(hierarchical) THEN 10
            ELSE broad_top_k
       /\ final_top_k' =
            IF r.error = "" /\ r.strategy = Member(hierarchical) THEN top_k
            ELSE final_top_k
    /\ UNCHANGED <<question, top_k, keywords, semantic_results, calls,
                   question_complexity, result>>
    /\ UNCHANGED <<memVars, llmVars, httpVars>>
    /\ UNCHANGED <<metricsVars, tasks>>

BasicRagStep ==
    /\ pc = "_basic_rag"
    /\ \E raw \in QueryOutcomes(top_k) :
        /\ calls' = Append(calls, SearchCall(question, top_k, NoFilter, raw))
        /\ result' = BasicRag(question, top_k, raw)
    /\ pc' = "returned"
    /\ UNCHANGED <<question, strategy, top_k, broad_top_k, final_top_k, keywords,
                   semantic_results, question_complexity, error>>
    /\ UNCHANGED <<memVars, llmVars, httpVars>>
    /\ UNCHANGED <<metricsVars, tasks>>

HierarchicalRagStep ==
    /\ pc = "_hierarchical_rag"
    /\ \E raw \in QueryOutcomes(broad_top_k) :
        /\ calls' = Append(calls, SearchCall(question, broad_top_k, NoFilter, raw))
        /\ result' = HierarchicalRag(question, broad_top_k, final_top_k, raw)
    /\ pc' = "returned"
    /\ UNCHANGED <<question, strategy, top_k, broad_top_k, final_top_k, keywords,
                   semantic_results, question_complexity, error>>
    /\ UNCHANGED <<memVars, llmVars, httpVars>>
    /\ UNCHANGED <<metricsVars, tasks>>

\* what _hybrid_rag returns when no keyword is left
SemanticOnlyResult(sr) ==
    [documents |-> sr.documents,
     metadatas |-> sr.metadatas,
     strategy |-> "hybrid",
     search_type |-> "semantic_only"]

\* what _hybrid_rag returns from the merged results
SemanticKeywordResult(cr) ==
    [documents |-> cr.documents,
     metadatas |-> cr.metadatas,
     strategy |-> "hybrid",
     search_type |-> "semantic_keyword"]

\* _hybrid_rag up to the call of _keyword_search, or to its return when no
\* keyword is left
HybridRagSemantic ==
    /\ pc = "_hybrid_rag"
    /\ \E raw \in QueryOutcomes(top_k) :
        /\ calls' = Append(calls, SearchCall(question, top_k, NoFilter, raw))
        /\ semantic_results' = Search(raw)
    /\ keywords' = ExtractKeywords(question)
    /\ IF keywords' # <<>>
       THEN /\ pc' = "_keyword_search"
            /\ UNCHANGED result
       ELSE /\ pc' = "returned"
            /\ result' = SemanticOnlyResult(semantic_results')
    /\ UNCHANGED <<question, strategy, top_k, broad_top_k, final_top_k,
                   question_complexity, error>>
    /\ UNCHANGED <<memVars, llmVars, httpVars>>
    /\ UNCHANGED <<metricsVars, tasks>>

\* _keyword_search and _merge_results, to the return of _hybrid_rag
HybridRagKeyword ==
    /\ pc = "_keyword_search"
    /\ \E raw \in QueryOutcomes(top_k) :
        /\ calls' = Append(calls, SearchCall(Join(keywords), top_k,
                                             KeywordFilter(keywords), raw))
        /\ LET combined_results ==
                   MergeResults(semantic_results,
                                KeywordSearch(keywords, top_k, raw))
           IN IF combined_results.error # ""
              THEN /\ pc' = "raised"
                   /\ error' = combined_results.error
                   /\ UNCHANGED result
              ELSE /\ pc' = "returned"
                   /\ result' = SemanticKeywordResult(combined_results.value)
                   /\ UNCHANGED error
    /\ UNCHANGED <<question, strategy, top_k, broad_top_k, final_top_k, keywords,
                   semantic_results, question_complexity>>
    /\ UNCHANGED <<memVars, llmVars, httpVars>>
    /\ UNCHANGED <<metricsVars, tasks>>

\* _adaptive_rag with medium and complex exchanged
RouteSwapped(complexity) ==
    IF complexity = "simple" THEN "_basic_rag"
    ELSE IF complexity = "medium" THEN "_hierarchical_rag"
    ELSE "_hybrid_rag"

\* the function _adaptive_rag hands the call to
Route(complexity) ==
    IF complexity = "simple" THEN "_basic_rag"
    ELSE IF complexity = "medium" THEN "_hybrid_rag"
    ELSE "_hierarchical_rag"

\* the broad_top_k _adaptive_rag passes to _hierarchical_rag
AdaptiveBroadTopK == 15

AdaptiveRag ==
    /\ pc = "_adaptive_rag"
    /\ question_complexity' = AssessQuestionComplexity(question)
    /\ pc' = Route(question_complexity')
    /\ IF pc' = "_hierarchical_rag"
       THEN /\ broad_top_k' = AdaptiveBroadTopK
            /\ final_top_k' = top_k
       ELSE UNCHANGED <<broad_top_k, final_top_k>>
    /\ UNCHANGED <<question, strategy, top_k, keywords, semantic_results, calls,
                   result, error>>
    /\ UNCHANGED <<memVars, llmVars, httpVars>>
    /\ UNCHANGED <<metricsVars, tasks>>

\* the call is over: the next one starts afresh (ModularRAG keeps no state)
Return ==
    /\ pc \in {"returned", "raised"}
    /\ pc' = "idle"
    /\ question' = <<>>
    /\ strategy' = Member(basic)
    /\ top_k' = 0
    /\ broad_top_k' = 0
    /\ final_top_k' = 0
    /\ keywords' = <<>>
    /\ semantic_results' = [documents |-> <<>>, metadatas |-> <<>>]
    /\ calls' = <<>>
    /\ question_complexity' = ""
    /\ result' = NoResult
    /\ error' = ""
    /\ UNCHANGED <<memVars, llmVars, httpVars>>
    /\ UNCHANGED <<metricsVars, tasks>>

Next ==
    \/ \E q \in Questions, t \in Tags, k \in 1..MaxTopK : Call(q, t, k)
    \/ ExecuteRag
    \/ BasicRagStep
    \/ HierarchicalRagStep
    \/ HybridRagSemantic
    \/ HybridRagKeyword
    \/ AdaptiveRag
    \/ Return

Spec == Init /\ [][Next]_vars

(***************************************************************************)
(* _extract_keywords and _assess_question_complexity alone, on questions   *)
(* longer and more varied than those of Spec.                              *)
(***************************************************************************)
\* pieces that bring their own whitespace, so that runs of whitespace,
\* leading whitespace and tokens glued from two pieces all occur
KwPieces ==
    { <<"W","h","a","t"," ">>, <<" ","w","h","y">>, <<"D","a","t","a"," ">>,
      <<"s","h","o","w","\t">>, <<"w","i","t","h","\n">> }

KwQuestions == {Concat(ps) : ps \in SeqsOf(KwPieces, 0, MaxKwPieces)}

CxWords ==
    simple_indicators \cup complex_indicators \cup
    { <<"d","a","t","a">>, <<"S","h","o","w">>, <<"W","H","Y">>,
      <<"w">>, <<"h","y">> }

CxQuestions == {Join(ws) : ws \in SeqsOf(CxWords, 0, MaxCxWords)}

InitFn(Qs) ==
    /\ pc = "fn"
    /\ MemIdle
    /\ LlmIdle
    /\ HttpIdle
    /\ MetricsIdle
    /\ question \in Qs
    /\ strategy = Member(basic)
    /\ top_k = 0
    /\ broad_top_k = 0
    /\ final_top_k = 0
    /\ keywords = <<>>
    /\ semantic_results = [documents |-> <<>>, metadatas |-> <<>>]
    /\ calls = <<>>
    /\ question_complexity = ""
    /\ result = NoResult
    /\ error = ""

\* keywords = self._extract_keywords(question)
ApplyExtractKeywords ==
    /\ pc = "fn"
    /\ keywords' = ExtractKeywords(question)
    /\ pc' = "fn_returned"
    /\ UNCHANGED <<question, strategy, top_k, broad_top_k, final_top_k,
                   semantic_results, calls, question_complexity, result, error>>
    /\ UNCHANGED <<memVars, llmVars, httpVars>>
    /\ UNCHANGED <<metricsVars, tasks>>

\* question_complexity = self._assess_question_complexity(question)
ApplyAssessQuestionComplexity ==
    /\ pc = "fn"
    /\ question_complexity' = AssessQuestionComplexity(question)
    /\ pc' = "fn_returned"
    /\ UNCHANGED <<question, strategy, top_k, broad_top_k, final_top_k, keywords,
                   semantic_results, calls, result, error>>
    /\ UNCHANGED <<memVars, llmVars, httpVars>>
    /\ UNCHANGED <<metricsVars, tasks>>

SpecKeywords == InitFn(KwQuestions) /\ [][ApplyExtractKeywords]_vars

SpecComplexity == InitFn(CxQuestions) /\ [][ApplyAssessQuestionComplexity]_vars

(***************************************************************************)
(* ConversationMemory (src/app/memory.py): the conversation history of a   *)
(* session, kept in Redis or in a dict of the process.  Two instances are  *)
(* followed side by side and given the same calls: one constructed with a  *)
(* Redis that answered the ping, one constructed without.                  *)
(***************************************************************************)
Sessions == {"s1", "s2"}

\* the values of limit a caller reads with
Limits == {-1, 0, 2, 100}

\* seq[:n] for any int n
SliceTo(seq, n) ==
    IF n >= 0 THEN Take(seq, n)
    ELSE IF Len(seq) + n > 0 THEN SubSeq(seq, 1, Len(seq) + n) ELSE <<>>

\* reversed(seq)
Reversed(seq) == [i \in 1..Len(seq) |-> seq[Len(seq) + 1 - i]]

\* datetime.isoformat()
IsoFormat(t) == [iso |-> t]

\* the dict store_conversation builds
Conversation(t, q, a, srcs) ==
    [timestamp |-> IsoFormat(t), question |-> q, answer |-> a, sources |-> srcs]

\* json.dumps of such a dict: the text of an object, key by key
Dumps(c) ==
    [json |-> << <<"timestamp", c.timestamp>>, <<"question", c.question>>,
                 <<"answer", c.answer>>, <<"sources", c.sources>> >>]

\* json.loads of such a text
Loads(s) ==
    LET Value(key) ==
            s.json[CHOOSE i \in 1..Len(s.json) : s.json[i][1] = key][2]
    IN [timestamp |-> Value("timestamp"), question |-> Value("question"),
        answer |-> Value("answer"), sources |-> Value("sources")]

\* f"conversation:{session_id}"
ConversationKey(sid) == <<"conversation:", sid>>

\* Redis: the list at a key (no key, no element), and the server once the
\* list at a key is replaced (a list left empty is no key any more)
ListAt(r, key) == IF key \in DOMAIN r THEN r[key] ELSE <<>>

WithList(r, key, list) ==
    IF list = <<>>
    THEN [k \in DOMAIN r \ {key} |-> r[k]]
    ELSE [k \in DOMAIN r \cup {key} |-> IF k = key THEN list ELSE r[k]]

\* Redis: the elements of a list from start to stop, both counted from 0
\* and included, a negative index counting from the end
Range(list, start, stop) ==
    LET n == Len(list)
        a == IF start >= 0 THEN start
             ELSE IF n + start < 0 THEN 0 ELSE n + start
        b == IF stop < 0 THEN n + stop
             ELSE IF stop >= n THEN n - 1 ELSE stop
    IN IF a > b THEN <<>> ELSE SubSeq(list, a + 1, b + 1)

\* the Redis commands LPUSH, LTRIM, LRANGE and DEL
Lpush(r, key, value) == WithList(r, key, <<value>> \o ListAt(r, key))
Ltrim(r, key, start, stop) == WithList(r, key, Range(ListAt(r, key), start, stop))
Lrange(r, key, start, stop) == Range(ListAt(r, key), start, stop)
\* a DEL that removes nothing
DeleteNothing(r, key) == r

Delete(r, key) == [k \in DOMAIN r \ {key} |-> r[k]]

\* store_conversation without Redis, keeping eleven turns
StoreLocalKeepEleven(h, sid, conversation) ==
    LET created ==
            IF sid \in DOMAIN h THEN h
            ELSE [k \in DOMAIN h \cup {sid} |-> IF k = sid THEN <<>> ELSE h[k]]
        inserted == [created EXCEPT ![sid] = <<conversation>> \o @]
    IN [inserted EXCEPT ![sid] = Take(@, 11)]

\* store_conversation without Redis
StoreLocal(h, sid, conversation) ==
    LET created ==
            IF sid \in DOMAIN h THEN h
            ELSE [k \in DOMAIN h \cup {sid} |-> IF k = sid THEN <<>> ELSE h[k]]
        inserted == [created EXCEPT ![sid] = <<conversation>> \o @]
    IN [inserted EXCEPT ![sid] = Take(@, 10)]

\* get_conversation_history without Redis
ReadLocal(h, sid, n) ==
    SliceTo(IF sid \in DOMAIN h THEN h[sid] ELSE <<>>, n)

\* get_conversation_history with Redis
ReadRedis(r, sid, n) ==
    LET items == Reversed(Lrange(r, ConversationKey(sid), 0, n - 1))
    IN [i \in 1..Len(items) |-> Loads(items[i])]

\* a clear that empties the dict of every session
ClearLocalAll(h, sid) == EmptyDict

\* clear_conversation without Redis
ClearLocal(h, sid) == [k \in DOMAIN h \ {sid} |-> h[k]]

\* what a caller stores
MemQuestions == { <<"W","h","a","t">> }
MemAnswers == { "text" }
MemSources == { <<"Source 1: T">> }

\* no call of the memory is under way
MemReady == pc \in {"memory", "stored", "read", "cleared"}

\* store_conversation(sid, q, a, srcs), up to LPUSH in the instance with Redis
StoreConversation(sid, q, a, srcs) ==
    /\ MemReady
    /\ now < MaxTurns
    /\ sid = "s1" \/ now < MaxOtherTurns
    /\ LET conversation == Conversation(now, q, a, srcs) IN
       /\ redis' = Lpush(redis, ConversationKey(sid), Dumps(conversation))
       /\ conversation_history' = StoreLocal(conversation_history, sid, conversation)
    /\ now' = now + 1
    /\ session_id' = sid
    /\ pc' = "lpush"
    /\ UNCHANGED <<limit, history, store_calls>>
    /\ UNCHANGED <<ragVars, llmVars, httpVars>>
    /\ UNCHANGED <<metricsVars, tasks>>

\* the LTRIM of store_conversation in the instance with Redis
StoreConversationLtrim ==
    /\ pc = "lpush"
    /\ redis' = Ltrim(redis, ConversationKey(session_id), 0, 9)
    /\ pc' = "stored"
    /\ UNCHANGED <<conversation_history, now, session_id, limit, history,
                   store_calls>>
    /\ UNCHANGED <<ragVars, llmVars, httpVars>>
    /\ UNCHANGED <<metricsVars, tasks>>

\* get_conversation_history(sid, n)
GetConversationHistory(sid, n) ==
    /\ MemReady
    /\ history' = [redis |-> ReadRedis(redis, sid, n),
                   memory |-> ReadLocal(conversation_history, sid, n)]
    /\ session_id' = sid
    /\ limit' = n
    /\ pc' = "read"
    /\ UNCHANGED <<redis, conversation_history, now, store_calls>>
    /\ UNCHANGED <<ragVars, llmVars, httpVars>>
    /\ UNCHANGED <<metricsVars, tasks>>

\* clear_conversation(sid)
ClearConversation(sid) ==
    /\ MemReady
    /\ redis' = Delete(redis, ConversationKey(sid))
    /\ conversation_history' = ClearLocal(conversation_history, sid)
    /\ session_id' = sid
    /\ pc' = "cleared"
    /\ UNCHANGED <<now, limit, history, store_calls>>
    /\ UNCHANGED <<ragVars, llmVars, httpVars>>
    /\ UNCHANGED <<metricsVars, tasks>>

InitMemory ==
    /\ pc = "memory"
    /\ RagIdle
    /\ MemIdle
    /\ LlmIdle
    /\ HttpIdle
    /\ MetricsIdle

NextMemory ==
    \/ \E sid \in Sessions, q \in MemQuestions, a \in MemAnswers,
          srcs \in MemSources : StoreConversation(sid, q, a, srcs)
    \/ StoreConversationLtrim
    \/ \E sid \in Sessions, n \in Limits : GetConversationHistory(sid, n)
    \/ \E sid \in Sessions : ClearConversation(sid)

SpecMemory == InitMemory /\ [][NextMemory]_vars

(***************************************************************************)
(* Concurrent callers of the conversation memory: two appends and a clear, *)
(* each by a task of its own, and reads at any moment.  With Redis, the    *)
(* commands of other clients can come between the LPUSH and the LTRIM of   *)
(* an append.  Without Redis the handlers are coroutines of one event loop *)
(* and store_conversation awaits nothing, so its work on the dict is one   *)
(* step.                                                                   *)
(***************************************************************************)
\* the tasks: what each does, for which session, how far it is, and the
\* timestamp of the turn it appended
Task(op, sid) == [op |-> op, session_id |-> sid, at |-> "start", timestamp |-> -1]

\* the turn of the k-th of the appends made before the tasks start: one
\* for s2 (k = 0), then k for s1, one after the other
PriorConversation(k) == Conversation(k, <<"W","h","a","t">>, "text", <<>>)

\* the list of s1 after these appends: the last 10 turns, newest first
PriorTurns(k) ==
    [i \in 1..(IF k < 10 THEN k ELSE 10) |-> PriorConversation(k + 1 - i)]

\* the Redis server and the dict after these appends
RedisAfterAppends(k) ==
    WithList(WithList(EmptyDict, ConversationKey("s2"),
                      <<Dumps(PriorConversation(0))>>),
             ConversationKey("s1"),
             [i \in 1..Len(PriorTurns(k)) |-> Dumps(PriorTurns(k)[i])])

DictAfterAppends(k) ==
    [sid \in (IF k = 0 THEN {"s2"} ELSE {"s1", "s2"}) |->
        IF sid = "s2" THEN <<PriorConversation(0)>> ELSE PriorTurns(k)]

\* store_conversation of task t: the turn is built and pushed (LPUSH), and
\* stored in the dict
AppendLpush(t, q, a, srcs) ==
    /\ pc = "concurrent"
    /\ tasks[t].op = "append"
    /\ tasks[t].at = "start"
    /\ LET conversation == Conversation(now, q, a, srcs)
           sid == tasks[t].session_id
       IN /\ redis' = Lpush(redis, ConversationKey(sid), Dumps(conversation))
          /\ conversation_history' =
                StoreLocal(conversation_history, sid, conversation)
          /\ session_id' = sid
    /\ tasks' = [tasks EXCEPT ![t].at = "lpush", ![t].timestamp = now]
    /\ now' = now + 1
    /\ UNCHANGED <<pc, limit, history, store_calls>>
    /\ UNCHANGED <<ragVars, llmVars, httpVars, metricsVars>>

\* the LTRIM of store_conversation of task t
AppendLtrim(t) ==
    /\ pc = "concurrent"
    /\ tasks[t].at = "lpush"
    /\ redis' = Ltrim(redis, ConversationKey(tasks[t].session_id), 0, 9)
    /\ session_id' = tasks[t].session_id
    /\ tasks' = [tasks EXCEPT ![t].at = "done"]
    /\ UNCHANGED <<pc, conversation_history, now, limit, history, store_calls>>
    /\ UNCHANGED <<ragVars, llmVars, httpVars, metricsVars>>

\* clear_conversation of task t
Clear(t) ==
    /\ pc = "concurrent"
    /\ tasks[t].op = "clear"
    /\ tasks[t].at = "start"
    /\ redis' = Delete(redis, ConversationKey(tasks[t].session_id))
    /\ conversation_history' =
          ClearLocal(conversation_history, tasks[t].session_id)
    /\ session_id' = tasks[t].session_id
    /\ tasks' = [tasks EXCEPT ![t].at = "done"]
    /\ UNCHANGED <<pc, now, limit, history, store_calls>>
    /\ UNCHANGED <<ragVars, llmVars, httpVars, metricsVars>>

\* get_conversation_history(sid, n) by a reader
Read(sid, n) ==
    /\ pc = "concurrent"
    /\ history' = [redis |-> ReadRedis(redis, sid, n),
                   memory |-> ReadLocal(conversation_history, sid, n)]
    /\ session_id' = sid
    /\ limit' = n
    /\ UNCHANGED <<pc, redis, conversation_history, now, store_calls, tasks>>
    /\ UNCHANGED <<ragVars, llmVars, httpVars, metricsVars>>

InitConcurrent ==
    /\ pc = "concurrent"
    /\ RagIdle
    /\ LlmIdle
    /\ HttpIdle
    /\ metrics = NewMetrics
    /\ completed = <<>>
    /\ call_next = ""
    /\ \E k \in 0..MaxStored :
        /\ redis = RedisAfterAppends(k)
        /\ conversation_history = DictAfterAppends(k)
        /\ now = k + 1
    /\ session_id = ""
    /\ limit = 0
    /\ history = NoHistory
    /\ store_calls = <<>>
    /\ \E sid2 \in Sessions, sid3 \in Sessions :
        tasks = [t \in {"t1", "t2", "t3"} |->
                    IF t = "t1" THEN Task("append", "s1")
                    ELSE IF t = "t2" THEN Task("append", sid2)
                    ELSE Task("clear", sid3)]

NextConcurrent ==
    \/ \E t \in {"t1", "t2"}, q \in MemQuestions, a \in MemAnswers,
          srcs \in MemSources : AppendLpush(t, q, a, srcs)
    \/ \E t \in {"t1", "t2"} : AppendLtrim(t)
    \/ Clear("t3")
    \/ \E sid \in Sessions, n \in Limits : Read(sid, n)

SpecConcurrent == InitConcurrent /\ [][NextConcurrent]_vars

(***************************************************************************)
(* GeminiClient.generate_response (src/app/gemini_client.py).  The model   *)
(* is outside the repository: an attempt (the body of the try) either      *)
(* raises or yields response.text, which may be empty.                     *)
(***************************************************************************)
max_retries == 3
retry_delay == 2

EmptyResponseMessage ==
    "I couldn't generate a response for this question. Please try again."

TechnicalDifficulties ==
    "Sorry, I'm experiencing technical difficulties. Please try again later."

\* what an attempt can do
ModelOutcomes ==
    { [raises |-> TRUE, text |-> ""],
      [raises |-> FALSE, text |-> ""],
      [raises |-> FALSE, text |-> "Generated answer"] }

\* a sleep of retry_delay whatever the attempt
BackoffConstant(a) == retry_delay

\* the argument of time.sleep after the failed attempt a
Backoff(a) == retry_delay * (a + 1)

\* the prompt the caller formats: its template and the question in it
Prompt(template, q) == [template |-> template, question |-> q]

PromptTemplates == {"no_context", "context", "history_context"}

\* one attempt: the try of the loop body, and the except up to the sleep
GenerateContent(outcome) ==
    /\ pc = "generate_response"
    /\ model_calls' = Append(model_calls, outcome)
    /\ IF ~outcome.raises
       THEN /\ answer' = IF outcome.text # "" THEN outcome.text
                         ELSE EmptyResponseMessage
            /\ pc' = "generated"
       ELSE IF attempt < max_retries - 1
            THEN /\ pc' = "sleep"
                 /\ UNCHANGED answer
            ELSE /\ answer' = TechnicalDifficulties
                 /\ pc' = "generated"
    /\ UNCHANGED <<prompt, attempt, sleeps, llm_calls>>
    /\ UNCHANGED <<ragVars, memVars, httpVars>>
    /\ UNCHANGED <<metricsVars, tasks>>

\* time.sleep(retry_delay * (attempt + 1)), then the next turn of the loop
Sleep ==
    /\ pc = "sleep"
    /\ sleeps' = Append(sleeps, Backoff(attempt))
    /\ attempt' = attempt + 1
    /\ pc' = "generate_response"
    /\ UNCHANGED <<prompt, answer, model_calls, llm_calls>>
    /\ UNCHANGED <<ragVars, memVars, httpVars>>
    /\ UNCHANGED <<metricsVars, tasks>>

\* generate_response(p) is entered
InitGemini ==
    /\ pc = "generate_response"
    /\ RagIdle
    /\ MemIdle
    /\ HttpIdle
    /\ MetricsIdle
    /\ prompt \in {Prompt(t, q) : t \in PromptTemplates, q \in Questions}
    /\ attempt = 0
    /\ sleeps = <<>>
    /\ answer = ""
    /\ model_calls = <<>>
    /\ llm_calls = <<prompt>>

NextGemini ==
    \/ \E outcome \in ModelOutcomes : GenerateContent(outcome)
    \/ Sleep

SpecGemini == InitGemini /\ [][NextGemini]_vars

\* the model answers or raises, and a sleep ends
SpecGeminiLive == SpecGemini /\ WF_vars(NextGemini)

(***************************************************************************)
(* PerformanceMetrics (src/app/main.py): the durations of the last         *)
(* requests recorded and two counters.  Durations are whole seconds.       *)
(***************************************************************************)
\* the length request_times is cut back to
MetricsWindow == 100

\* the process times measured
Durations == {1, 2}

\* PerformanceMetrics.record_request(duration, success)
RecordRequest(m, duration, success) ==
    LET appended == Append(m.request_times, duration)
    IN [request_times |-> IF Len(appended) > MetricsWindow THEN Tail(appended)
                          ELSE appended,
        error_count |-> IF success THEN m.error_count ELSE m.error_count + 1,
        success_count |-> IF success THEN m.success_count + 1
                          ELSE m.success_count]

\* sum(request_times)
RECURSIVE Sum(_)
Sum(seq) == IF seq = <<>> THEN 0 ELSE Head(seq) + Sum(Tail(seq))

\* round(num / den, 2) as a number of hundredths: the nearest one, the even
\* one of two that are equally near
Round2(num, den) ==
    LET q == (100 * num) \div den
        r == (100 * num) % den
    IN IF 2 * r < den THEN q
       ELSE IF 2 * r > den THEN q + 1
       ELSE IF q % 2 = 0 THEN q ELSE q + 1

\* PerformanceMetrics.get_metrics: the dict returned, its numbers in
\* hundredths where they are rounded
GetMetrics(m) ==
    IF m.request_times = <<>>
    THEN [average_response_time |-> 0, success_rate |-> 100]
    ELSE LET total_requests == m.success_count + m.error_count
         IN [average_response_time |->
                Round2(Sum(m.request_times), Len(m.request_times)),
             success_rate |->
                IF total_requests > 0 THEN Round2(m.success_count, total_requests)
                ELSE 100,
             total_requests |-> total_requests,
             error_count |-> m.error_count]

(***************************************************************************)
(* The request handlers: POST /query and POST /query/strategy              *)
(* (src/app/main.py) and POST /api/query (src/main.py).  One request is    *)
(* followed from its arrival to its response; the handlers call            *)
(* execute_rag, generate_response and the conversation memory above.  The  *)
(* module-level ConversationMemory() is constructed without a Redis URL,   *)
(* so the service keeps its turns in the dict of the process.              *)
(***************************************************************************)
Endpoints == {"/query", "/query/strategy", "/api/query"}

\* the handler of src/app/main.py serves the first two, src/main.py the third
IsApp(e) == e \in {"/query", "/query/strategy"}

NoPapersMessage ==
    "I couldn't find any relevant research papers in my database to answer your question. Please try rephrasing or asking about a different topic."

\* the field strategy of a JSON body: a string, or left out
Given(s) == [given |-> TRUE, value |-> s]
LeftOut == [given |-> FALSE, value |-> <<>>]

\* the bodies posted: questions that are empty, simple with a keyword,
\* medium without and with a keyword, and complex; top_k inside and on both
\* sides of 1..10; the four tags, two strings that are no tag, and no tag
SvcQuestions ==
    { <<>>, <<"d","a","t","a">>, <<"W","h","a","t">>,
      <<"W","h","a","t"," ","d","a","t","a">>, <<"S","h","o","w">> }

SvcTopKs == (1..MaxTopK) \cup {0, 11}

SvcStrategies ==
    {Given(v) : v \in RAGStrategyValues} \cup
    { Given(<<"B","A","S","I","C">>), Given(<<"n","o","n","s","e","n","s","e">>),
      LeftOut }

Bodies ==
    [question : SvcQuestions, top_k : SvcTopKs, strategy : SvcStrategies]

SvcSessions == {"s1"}

\* the conversation memory of a service that is new, and of one that has
\* answered a question of session s1 for which it found no document
PriorHistories ==
    { EmptyDict,
      StoreLocal(EmptyDict, "s1",
                 Conversation(0, <<"d","a","t","a">>, NoPapersMessage, <<>>)) }

\* pydantic: a body is a QueryRequest
IsQueryRequest(b) ==
    /\ Len(b.question) >= 1
    /\ b.top_k >= 1
    /\ b.top_k <= 10
    /\ b.strategy.given => b.strategy.value \in RAGStrategyValues

\* pydantic: a body is a RAGStrategyRequest
IsRAGStrategyRequest(b) ==
    b.strategy.given => b.strategy.value \in RAGStrategyValues

\* the QueryRequest made of a body, the default strategy filled in
QueryRequest(b) ==
    [question |-> b.question, top_k |-> b.top_k,
     strategy |-> IF b.strategy.given THEN b.strategy.value ELSE basic]

\* bool(x) of a value held in a list: the metadata dicts of the collection
\* hold fields, a list or a str may be empty
Truthy(x) == IF x.py = "dict" THEN TRUE ELSE x.v # <<>>

\* "Source {i}: {title}" of a metadata dict, and "Source {i}"
SourceOf(i, meta) == <<"Source", i, meta.v>>
SourceNumber(i) == <<"Source", i>>

\* format_sources of src/app/main.py: meta.get raises AttributeError on a
\* list
AppFormatSources(metadatas) ==
    IF \E i \in 1..Len(metadatas) :
            Truthy(metadatas[i]) /\ metadatas[i].py # "dict"
    THEN [error |-> "AttributeError", value |-> <<>>]
    ELSE [error |-> "",
          value |-> [i \in 1..Len(metadatas) |->
                        IF Truthy(metadatas[i]) THEN SourceOf(i, metadatas[i])
                        ELSE SourceNumber(i)]]

\* the metadata of src/main.py's handler, taken out of a wrapping list
ApiUnnest(metadatas) ==
    IF metadatas # <<>>
    THEN IF metadatas[1].py = "list" THEN metadatas[1].v ELSE metadatas
    ELSE <<>>

\* format_sources of src/main.py
ApiFormatSources(metadatas) ==
    IF metadatas = <<>> THEN <<>>
    ELSE LET actual_metas ==
                 IF metadatas[1].py = "list" THEN metadatas[1].v ELSE metadatas
         IN [i \in 1..Len(actual_metas) |->
                IF Truthy(actual_metas[i]) /\ actual_metas[i].py = "dict"
                THEN SourceOf(i, actual_metas[i])
                ELSE SourceNumber(i)]

\* pydantic: context is a List[str]
IsListOfStr(context) == \A i \in 1..Len(context) : context[i].py = "str"

\* the response of a request that ended in an exception
ErrorResponse(detail) ==
    [answer |-> "", sources |-> <<>>, context |-> <<>>, strategy |-> <<>>,
     detail |-> detail]

\* a QueryResponse, or the dict src/main.py answers with
QueryResponse(a, sources, context, s) ==
    [answer |-> a, sources |-> sources, context |-> context, strategy |-> s,
     detail |-> ""]

\* the request is answered with an error status
Reject(code, detail) ==
    /\ status' = code
    /\ response' = ErrorResponse(detail)
    /\ pc' = "responded"
    /\ UNCHANGED <<endpoint, body, query_request>>

\* gemini_client.generate_response(p) is entered
CallGenerateResponse(p) ==
    /\ prompt' = p
    /\ attempt' = 0
    /\ sleeps' = <<>>
    /\ answer' = ""
    /\ model_calls' = <<>>
    /\ llm_calls' = Append(llm_calls, p)
    /\ pc' = "generate_response"

\* conversation_memory.get_conversation_history(session_id, limit=3), the
\* prompt with or without the history, and the call of generate_response
ReadHistoryThenGenerate ==
    LET conversation_history_read ==
            ReadLocal(conversation_history, session_id, 3)
    IN /\ history' = [redis |-> <<>>, memory |-> conversation_history_read]
       /\ limit' = 3
       /\ CallGenerateResponse(
              Prompt(IF conversation_history_read # <<>>
                     THEN "history_context" ELSE "context", question))
       /\ UNCHANGED <<redis, conversation_history, now, session_id, store_calls>>
       /\ UNCHANGED httpVars

\* a handler that logs the call of store_conversation and stores nothing
StoreTurnForgets(a, sources) ==
    /\ now' = now + 1
    /\ store_calls' =
          Append(store_calls,
                 [session_id |-> session_id, question |-> question,
                  answer |-> a, sources |-> sources])
    /\ UNCHANGED <<redis, conversation_history, session_id, limit, history>>

\* conversation_memory.store_conversation(session_id, question, a, sources)
StoreTurn(a, sources) ==
    /\ conversation_history' =
          StoreLocal(conversation_history, session_id,
                     Conversation(now, question, a, sources))
    /\ now' = now + 1
    /\ store_calls' =
          Append(store_calls,
                 [session_id |-> session_id, question |-> question,
                  answer |-> a, sources |-> sources])
    /\ UNCHANGED <<redis, session_id, limit, history>>

\* what the middleware of src/app/main.py gets from call_next once the
\* request is answered: a response, or (kind = "exception") the exception
\* no handler caught; src/main.py has no such middleware
CallNextOutcome(kind) ==
    IF pc' = "responded" /\ IsApp(endpoint) THEN kind ELSE call_next

\* metrics.record_request(time.time() - start_time, success=False) in the
\* except of query_documents of src/app/main.py
ExceptRecords ==
    IF IsApp(endpoint)
    THEN \E duration \in Durations :
            metrics' = RecordRequest(metrics, duration, FALSE)
    ELSE UNCHANGED metrics

\* a request arrives
Post(e, b, sid) ==
    /\ pc = "listening"
    /\ endpoint' = e
    /\ body' = b
    /\ session_id' = sid
    /\ pc' = "validate"
    /\ UNCHANGED <<query_request, status, response>>
    /\ UNCHANGED <<redis, conversation_history, now, limit, history, store_calls>>
    /\ UNCHANGED <<ragVars, llmVars>>
    /\ UNCHANGED <<metricsVars, tasks>>

\* FastAPI checks the body against the model the handler declares and
\* answers 422 when it does not fit
Validate ==
    /\ pc = "validate"
    /\ IF endpoint = "/query/strategy"
       THEN IF IsRAGStrategyRequest(body)
            THEN /\ pc' = "query_with_strategy"
                 /\ UNCHANGED httpVars
            ELSE Reject(422, "RequestValidationError")
       ELSE IF IsQueryRequest(body)
            THEN /\ pc' = "query_documents"
                 /\ query_request' = QueryRequest(body)
                 /\ UNCHANGED <<endpoint, body, status, response>>
            ELSE Reject(422, "RequestValidationError")
    /\ call_next' = CallNextOutcome("response")
    /\ UNCHANGED <<ragVars, memVars, llmVars>>
    /\ UNCHANGED <<metrics, completed, tasks>>

\* query_with_strategy: QueryRequest(question, top_k) is built outside any
\* try, so its ValidationError is an unhandled exception of the handler
QueryWithStrategy ==
    /\ pc = "query_with_strategy"
    /\ LET b == [question |-> body.question, top_k |-> body.top_k,
                 strategy |-> LeftOut]
       IN IF IsQueryRequest(b)
          THEN /\ pc' = "query_documents"
               /\ query_request' = QueryRequest(b)
               /\ UNCHANGED <<endpoint, body, status, response>>
          ELSE Reject(500, "ValidationError")
    /\ call_next' = CallNextOutcome("exception")
    /\ UNCHANGED <<ragVars, memVars, llmVars>>
    /\ UNCHANGED <<metrics, completed, tasks>>

\* query_documents up to the call of execute_rag: src/app/main.py passes a
\* member of modular_rag's RAGStrategy, src/main.py a member of the str
\* enumeration of models.py
QueryDocuments ==
    /\ pc = "query_documents"
    /\ question' = query_request.question
    /\ top_k' = query_request.top_k
    /\ strategy' = IF IsApp(endpoint) THEN Member(query_request.strategy)
                   ELSE StrTag(query_request.strategy)
    /\ pc' = "execute_rag"
    /\ UNCHANGED <<broad_top_k, final_top_k, keywords, semantic_results, calls,
                   question_complexity, result, error>>
    /\ UNCHANGED <<memVars, llmVars, httpVars>>
    /\ UNCHANGED <<metricsVars, tasks>>

\* execute_rag returned: the answer for no document in src/app/main.py, the
\* first call of generate_response for no document in src/main.py, or the
\* one call for the documents found
AfterRetrieval ==
    /\ pc = "returned"
    /\ IF result.documents = <<>>
       THEN IF IsApp(endpoint)
            THEN /\ status' = 200
                 /\ response' = QueryResponse(NoPapersMessage, <<>>, <<>>,
                                              query_request.strategy)
                 /\ StoreTurn(NoPapersMessage, <<>>)
                 /\ pc' = "responded"
                 /\ UNCHANGED <<endpoint, body, query_request>>
                 /\ UNCHANGED llmVars
            ELSE /\ CallGenerateResponse(Prompt("no_context", question))
                 /\ UNCHANGED <<memVars, httpVars>>
       ELSE ReadHistoryThenGenerate
    /\ call_next' = CallNextOutcome("response")
    /\ UNCHANGED ragVars
    /\ UNCHANGED <<metrics, completed, tasks>>

\* execute_rag raised: the except of the handler answers 500
RetrievalRaised ==
    /\ pc = "raised"
    /\ Reject(500, error)
    /\ ExceptRecords
    /\ call_next' = CallNextOutcome("response")
    /\ UNCHANGED <<ragVars, memVars, llmVars>>
    /\ UNCHANGED <<completed, tasks>>

\* generate_response returned: src/main.py goes on to its second call after
\* the first; otherwise the sources and the response are built, the turn is
\* stored and the response is sent, or an exception of these steps is
\* answered with 500
AfterGenerate ==
    /\ pc = "generated"
    /\ IF ~IsApp(endpoint) /\ prompt.template = "no_context"
       THEN ReadHistoryThenGenerate /\ UNCHANGED metrics
       ELSE LET sources ==
                    IF IsApp(endpoint) THEN AppFormatSources(result.metadatas)
                    ELSE [error |-> "",
                          value |-> ApiFormatSources(
                                        <<PyList(ApiUnnest(result.metadatas))>>)]
                failure ==
                    IF sources.error # "" THEN sources.error
                    ELSE IF IsApp(endpoint) /\ ~IsListOfStr(result.documents)
                         THEN "ValidationError" ELSE ""
            IN /\ IF failure # ""
                  THEN /\ Reject(500, failure)
                       /\ ExceptRecords
                       /\ UNCHANGED memVars
                  ELSE /\ status' = 200
                       /\ response' = QueryResponse(answer, sources.value,
                                                    result.documents,
                                                    query_request.strategy)
                       /\ StoreTurn(answer, sources.value)
                       /\ pc' = "responded"
                       /\ UNCHANGED <<endpoint, body, query_request, metrics>>
               /\ UNCHANGED llmVars
    /\ call_next' = CallNextOutcome("response")
    /\ UNCHANGED ragVars
    /\ UNCHANGED <<completed, tasks>>

\* add_process_time_header after call_next: the response is counted and
\* sent; an exception that no handler caught passes through the await, so
\* nothing is counted and the server answers 500 by itself
AddProcessTimeHeader(process_time) ==
    /\ pc = "responded"
    /\ endpoint # "/api/query"
    /\ Len(completed) < MaxRequests
    /\ process_time = 1 \/ Len(completed) < MaxVariedRequests
    /\ metrics' = IF call_next = "exception" THEN metrics
                  ELSE RecordRequest(metrics, process_time, status < 400)
    /\ completed' = Append(completed, [status |-> status,
                                       process_time |-> process_time])
    /\ call_next' = ""
    /\ pc' = "sent"
    /\ UNCHANGED <<ragVars, memVars, llmVars, httpVars, tasks>>

InitService ==
    /\ pc = "listening"
    /\ RagIdle
    /\ LlmIdle
    /\ HttpIdle
    /\ redis = EmptyDict
    /\ conversation_history \in PriorHistories
    /\ now = IF conversation_history = EmptyDict THEN 0 ELSE 1
    /\ session_id = ""
    /\ limit = 0
    /\ history = NoHistory
    /\ store_calls = <<>>
    /\ metrics = IF conversation_history = EmptyDict THEN NewMetrics
                 ELSE RecordRequest(NewMetrics, 1, TRUE)
    /\ completed = IF conversation_history = EmptyDict THEN <<>>
                   ELSE <<[status |-> 200, process_time |-> 1]>>
    /\ call_next = ""
    /\ tasks = EmptyDict

NextService ==
    \/ \E e \in Endpoints, b \in Bodies, sid \in SvcSessions : Post(e, b, sid)
    \/ Validate
    \/ QueryWithStrategy
    \/ QueryDocuments
    \/ ExecuteRag
    \/ BasicRagStep
    \/ HierarchicalRagStep
    \/ HybridRagSemantic
    \/ HybridRagKeyword
    \/ AdaptiveRag
    \/ AfterRetrieval
    \/ RetrievalRaised
    \/ \E outcome \in ModelOutcomes : GenerateContent(outcome)
    \/ Sleep
    \/ AfterGenerate
    \/ \E process_time \in Durations : AddProcessTimeHeader(process_time)

SpecService == InitService /\ [][NextService]_vars

(***************************************************************************)
(* The endpoints of src/app/main.py that query nothing, request after      *)
(* request: GET /, GET /metrics and a path the application does not route. *)
(***************************************************************************)
\* the service is ready for the next request
Ready == pc \in {"listening", "sent"} /\ Len(completed) < MaxRequests

\* a handler that takes no argument answers 200 with content
Answer(path, content) ==
    /\ Ready
    /\ endpoint' = path
    /\ status' = 200
    /\ response' = content
    /\ call_next' = "response"
    /\ pc' = "responded"
    /\ UNCHANGED <<body, query_request, metrics, completed, tasks>>
    /\ UNCHANGED <<ragVars, memVars, llmVars>>

\* GET /: root()
Root == Answer("/", [message |-> "Academic Research Assistant API"])

\* GET /metrics: get_metrics()
GetMetricsEndpoint == Answer("/metrics", GetMetrics(metrics))

\* a request for a path without a route: the router answers 404
NotFound ==
    /\ Ready
    /\ Len(completed) < MaxVariedRequests
    /\ endpoint' = "/nowhere"
    /\ status' = 404
    /\ response' = [detail |-> "Not Found"]
    /\ call_next' = "response"
    /\ pc' = "responded"
    /\ UNCHANGED <<body, query_request, metrics, completed, tasks>>
    /\ UNCHANGED <<ragVars, memVars, llmVars>>

InitMetrics ==
    /\ pc = "listening"
    /\ RagIdle
    /\ MemIdle
    /\ LlmIdle
    /\ HttpIdle
    /\ MetricsIdle

NextMetrics ==
    \/ Root
    \/ GetMetricsEndpoint
    \/ NotFound
    \/ \E process_time \in Durations : AddProcessTimeHeader(process_time)

SpecMetrics == InitMetrics /\ [][NextMetrics]_vars

(***************************************************************************)
(* Definitions the properties below are stated with.  They say what a      *)
(* token, a score and a sorted list are, without the code's loops.         *)
(***************************************************************************)
\* where the whitespace-delimited tokens of s start, and the token there
TokenStarts(s) ==
    {a \in 1..Len(s) : s[a] \notin Whitespace /\ (a = 1 \/ s[a - 1] \in Whitespace)}

TokenAt(s, a) ==
    LET b == CHOOSE e \in a..Len(s) :
                 /\ \A i \in a..e : s[i] \notin Whitespace
                 /\ e = Len(s) \/ s[e + 1] \in Whitespace
    IN SubSeq(s, a, b)

\* the number of tokens of the lowercased question inside the lowercased text
OverlapScore(q, text) ==
    Cardinality({a \in TokenStarts(q) : IsSubstr(Lower(TokenAt(q, a)), Lower(text))})

Min(a, b) == IF a < b THEN a ELSE b

\* the one-to-one maps of 1..n onto itself
Perms(n) == {p \in [1..n -> 1..n] : \A i, j \in 1..n : i # j => p[i] # p[j]}

\* the (document, metadata) pairs the store returned during the call
StorePairs ==
    UNION { {<<HitDocs(calls[c].raw)[j], HitMetas(calls[c].raw)[j]>> :
                j \in 1..Len(calls[c].raw.hits)} : c \in 1..Len(calls) }

\* the documents and the metadata of a result, one entry per document,
\* whether the result holds them directly or inside a one-element list
DocsOf(r) ==
    IF r.documents # <<>> /\ r.documents[1].py = "list"
    THEN r.documents[1].v ELSE r.documents
MetasOf(r) ==
    IF r.metadatas # <<>> /\ r.metadatas[1].py = "list"
    THEN r.metadatas[1].v ELSE r.metadatas

\* a tag that is literally one of the four, as a str or as the enum member
IsOneOfTheFour(t) == t.value \in RAGStrategyValues

\* a tag that is one of the four once lowercased (enum members are as they are)
IsOneOfTheFourLowered(t) ==
    IF t.isStr THEN Lower(t.value) \in RAGStrategyValues
    ELSE t.value \in RAGStrategyValues

(***************************************************************************)
(* C1 (as stated): a call of execute_rag with a tag that is not one of     *)
(* basic, hierarchical, hybrid, adaptive raises: no query of the store is  *)
(* made and no result is returned.                                         *)
(***************************************************************************)
C1_UnknownTagFails_AsStated ==
    [][(pc = "execute_rag" /\ ~IsOneOfTheFour(strategy))
        => (pc' = "raised" /\ error' = "ValueError" /\ calls' = <<>>
            /\ result' = NoResult)]_vars

(***************************************************************************)
(* C1 (amended): a call of execute_rag with a tag whose lowercased form is *)
(* not one of the four raises ValueError at once, with no query of the     *)
(* store made and no result returned; and a call that raised ValueError    *)
(* has made no query and holds no result.                                  *)
(***************************************************************************)
C1_UnknownTagFails ==
    /\ [][(pc = "execute_rag" /\ ~IsOneOfTheFourLowered(strategy))
          => (pc' = "raised" /\ error' = "ValueError" /\ calls' = <<>>
              /\ result' = NoResult)]_vars
    /\ []((pc = "raised" /\ error = "ValueError")
          => (calls = <<>> /\ result = NoResult /\ ~IsOneOfTheFourLowered(strategy)))

C1_Witness ==
    /\ pc = "raised"
    /\ error = "ValueError"
    /\ strategy = StrTag(<<"n","o","n","s","e","n","s","e">>)
    /\ calls = <<>>

(***************************************************************************)
(* C2: whatever the strategy, a returned result holds as many metadata as  *)
(* documents, both as the two lists of the dict and document by document.  *)
(***************************************************************************)
C2_EqualLength ==
    pc = "returned"
    => /\ Len(result.documents) = Len(result.metadatas)
       /\ Len(DocsOf(result)) = Len(MetasOf(result))

C2_Witness ==
    /\ pc = "returned"
    /\ strategy = Member(hierarchical)
    /\ top_k = 2
    /\ Len(calls[1].raw.hits) = 3
    /\ Len(result.documents) = 2
    /\ Len(result.metadatas) = 2

(***************************************************************************)
(* C3: in a returned result the metadata at index i is the metadata the    *)
(* store returned together with the document at index i.                   *)
(***************************************************************************)
C3_MetadataCorrespond ==
    pc = "returned"
    => \A i \in 1..Len(DocsOf(result)) :
          /\ i <= Len(MetasOf(result))
          /\ <<DocsOf(result)[i], MetasOf(result)[i]>> \in StorePairs

(***************************************************************************)
(* C4: basic retrieval makes exactly one query of the store, for the       *)
(* question with the requested top_k and no filter, and returns the        *)
(* store's documents and metadata as they are and in the store's order,    *)
(* tagged search_type = semantic; the store answering a query of width k   *)
(* with at most k items, the result holds at most top_k documents.         *)
(***************************************************************************)
C4_BasicVerbatim ==
    (pc = "returned" /\ strategy = Member(basic))
    => /\ Len(calls) = 1
       /\ calls[1].top_k = top_k
       /\ calls[1].query = question
       /\ calls[1].filter_metadata = NoFilter
       /\ result.documents = HitDocs(calls[1].raw)
       /\ result.metadatas = HitMetas(calls[1].raw)
       /\ result.search_type = "semantic"
       /\ Len(result.documents) <= top_k

C4_Witness ==
    /\ pc = "returned"
    /\ strategy = Member(basic)
    /\ top_k = 2
    /\ calls[1].raw.hits = <<2, 1>>
    /\ Len(result.documents) = 2

(***************************************************************************)
(* C5: hierarchical retrieval dispatched by execute_rag makes one query of *)
(* the store, of width 10 whatever top_k is, and returns the first top_k   *)
(* candidates of the candidates sorted by descending keyword-overlap       *)
(* score, candidates of equal score in the store's order; every returned   *)
(* document is a candidate and no candidate is returned twice.             *)
(***************************************************************************)
C5_HierarchicalRerank ==
    (pc = "returned" /\ strategy = Member(hierarchical))
    => /\ Len(calls) = 1
       /\ calls[1].top_k = 10
       /\ calls[1].query = question
       /\ LET cand == HitDocs(calls[1].raw)
              n == Len(cand)
              sc(i) == OverlapScore(question, cand[i].v)
          IN \E p \in Perms(n) :
                /\ \A i, j \in 1..n :
                      i < j => \/ sc(p[i]) > sc(p[j])
                               \/ sc(p[i]) = sc(p[j]) /\ p[i] < p[j]
                /\ result.documents = [i \in 1..Min(top_k, n) |-> cand[p[i]]]

C5_Witness ==
    /\ pc = "returned"
    /\ strategy = Member(hierarchical)
    /\ top_k = 2
    /\ calls[1].top_k = 10
    /\ calls[1].raw.hits = <<1, 2, 3>>
    /\ result.documents = <<HitDocs(calls[1].raw)[2], HitDocs(calls[1].raw)[1]>>

\* the stopwords and the trigger words, as the documentation lists them
ListedStopWords ==
    { <<"w","h","a","t">>, <<"i","s">>, <<"t","h","e">>, <<"a">>, <<"a","n">>,
      <<"i","n">>, <<"o","n">>, <<"a","t">>, <<"t","o">>, <<"f","o","r">>,
      <<"o","f">>, <<"w","i","t","h">>, <<"b","y">> }
ListedComplexTriggers ==
    { <<"h","o","w">>, <<"w","h","y">>, <<"c","o","m","p","a","r","e">>,
      <<"d","i","f","f","e","r","e","n","c","e">>,
      <<"a","d","v","a","n","t","a","g","e","s">>,
      <<"d","i","s","a","d","v","a","n","t","a","g","e","s">> }
ListedMediumTriggers ==
    { <<"w","h","a","t">>, <<"w","h","o">>, <<"w","h","e","n">>,
      <<"w","h","e","r","e">> }

\* t occurs in s at some position, character by character
Occurs(t, s) ==
    \E i \in 1..Len(s) :
        /\ i + Len(t) - 1 <= Len(s)
        /\ \A j \in 1..Len(t) : s[i + j - 1] = t[j]

\* where the tokens of q that qualify as keywords start
KeywordStarts(q) ==
    {a \in TokenStarts(q) :
        /\ Len(TokenAt(q, a)) > 3
        /\ Lower(TokenAt(q, a)) \notin ListedStopWords}

\* the route of the call goes through _hybrid_rag
ViaHybrid ==
    \/ strategy = Member(hybrid)
    \/ strategy = Member(adaptive) /\ question_complexity = "medium"

(***************************************************************************)
(* C6: _extract_keywords returns the first five at most of the lowercased  *)
(* whitespace-delimited tokens of the question that are longer than 3 and  *)
(* no stopword, in their order in the question, repetitions kept; no       *)
(* keyword is a stopword or has 3 characters or fewer.                     *)
(***************************************************************************)
C6_ExtractKeywords ==
    pc = "fn_returned"
    => LET Q == KeywordStarts(question) IN
       /\ Len(keywords) = Min(5, Cardinality(Q))
       /\ \A j \in 1..Len(keywords) :
             /\ \E a \in Q :
                   /\ Cardinality({b \in Q : b < a}) = j - 1
                   /\ keywords[j] = Lower(TokenAt(question, a))
             /\ keywords[j] \notin ListedStopWords
             /\ Len(keywords[j]) > 3

C6_Witness ==
    /\ pc = "fn_returned"
    /\ Cardinality(KeywordStarts(question)) = 6
    /\ Len(keywords) = 5
    /\ keywords[1] # keywords[2]

(***************************************************************************)
(* C7: when a keyword survives, hybrid retrieval returns the merged list:  *)
(* the semantic results in their order, then the keyword results whose     *)
(* text is not there yet, in their order, no text twice, each document     *)
(* with the metadata of its own list, tagged search_type =                 *)
(* semantic_keyword.                                                       *)
(***************************************************************************)
C7_HybridMerged ==
    (pc \in {"returned", "raised"} /\ ViaHybrid /\ KeywordStarts(question) # {})
    => /\ pc = "returned"
       /\ Len(calls) = 2
       /\ result.search_type = "semantic_keyword"
       /\ LET X == [i \in 1..Len(calls[1].raw.hits) |->
                        [doc |-> HitDocs(calls[1].raw)[i],
                         meta |-> HitMetas(calls[1].raw)[i]]] \o
                   [i \in 1..Len(calls[2].raw.hits) |->
                        [doc |-> HitDocs(calls[2].raw)[i],
                         meta |-> HitMetas(calls[2].raw)[i]]]
              F == {i \in 1..Len(X) : \A j \in 1..(i - 1) : X[j].doc # X[i].doc}
              M == DocsOf(result)
              N == MetasOf(result)
          IN /\ Len(M) = Cardinality(F)
             /\ Len(N) = Cardinality(F)
             /\ \A i \in F :
                   LET r == Cardinality({j \in F : j <= i}) IN
                   M[r] = X[i].doc /\ N[r] = X[i].meta
             /\ \A i, j \in 1..Len(M) : i # j => M[i] # M[j]

C7_Witness ==
    /\ pc = "returned"
    /\ strategy = Member(hybrid)
    /\ keywords # <<>>
    /\ calls[1].raw.hits = <<1, 2>>
    /\ calls[2].raw.hits = <<2, 3>>
    /\ Len(DocsOf(result)) = 2

(***************************************************************************)
(* C8: when no keyword survives, hybrid retrieval makes exactly one query  *)
(* of the store, the semantic one (the question, top_k, no filter), and    *)
(* returns the documents and the metadata of that search, tagged           *)
(* strategy = hybrid and search_type = semantic_only.                      *)
(***************************************************************************)
C8_HybridSemanticOnly ==
    /\ (pc = "_keyword_search") => KeywordStarts(question) # {}
    /\ (pc \in {"returned", "raised"} /\ ViaHybrid /\ KeywordStarts(question) = {})
       => /\ pc = "returned"
          /\ Len(calls) = 1
          /\ calls[1].query = question
          /\ calls[1].top_k = top_k
          /\ calls[1].filter_metadata = NoFilter
          /\ result.documents = Search(calls[1].raw).documents
          /\ result.metadatas = Search(calls[1].raw).metadatas
          /\ result.strategy = "hybrid"
          /\ result.search_type = "semantic_only"

C8_Witness ==
    /\ pc = "returned"
    /\ strategy = Member(hybrid)
    /\ question = <<"W","h","a","t">>
    /\ Len(calls) = 1
    /\ calls[1].raw.hits = <<2, 3>>
    /\ result.search_type = "semantic_only"

(***************************************************************************)
(* C9: the classifier answers complex when the lowercased question holds   *)
(* one of how, why, compare, difference, advantages, disadvantages as a    *)
(* substring, whether or not it holds a medium trigger; otherwise medium   *)
(* when it holds one of what, who, when, where; otherwise simple.  The     *)
(* answer is always one of the three labels.                               *)
(***************************************************************************)
C9_Complexity ==
    pc = "fn_returned"
    => LET ql == Lower(question)
           hasComplex == \E t \in ListedComplexTriggers : Occurs(t, ql)
           hasMedium == \E t \in ListedMediumTriggers : Occurs(t, ql)
       IN /\ question_complexity \in {"simple", "medium", "complex"}
          /\ hasComplex => question_complexity = "complex"
          /\ (~hasComplex /\ hasMedium) => question_complexity = "medium"
          /\ (~hasComplex /\ ~hasMedium) => question_complexity = "simple"

C9_Witness ==
    /\ pc = "fn_returned"
    /\ question = <<"w","h","a","t"," ","S","h","o","w">>
    /\ question_complexity = "complex"

(***************************************************************************)
(* C10: adaptive retrieval does what basic retrieval does with top_k for a *)
(* question classified simple, what hybrid retrieval does with top_k for   *)
(* medium, and what hierarchical retrieval does with broad_top_k = 15 and  *)
(* final_top_k = top_k for complex, the store being queried with width 15  *)
(* then.                                                                   *)
(***************************************************************************)
C10_AdaptiveRoutes ==
    (pc \in {"returned", "raised"} /\ strategy = Member(adaptive))
    => /\ question_complexity \in {"simple", "medium", "complex"}
       /\ question_complexity = "simple"
          => /\ pc = "returned"
             /\ Len(calls) = 1
             /\ calls[1] = SearchCall(question, top_k, NoFilter, calls[1].raw)
             /\ result = BasicRag(question, top_k, calls[1].raw)
       /\ (question_complexity = "medium" /\ ExtractKeywords(question) = <<>>)
          => /\ pc = "returned"
             /\ Len(calls) = 1
             /\ calls[1] = SearchCall(question, top_k, NoFilter, calls[1].raw)
             /\ result = SemanticOnlyResult(Search(calls[1].raw))
       /\ (question_complexity = "medium" /\ ExtractKeywords(question) # <<>>)
          => /\ Len(calls) = 2
             /\ calls[1] = SearchCall(question, top_k, NoFilter, calls[1].raw)
             /\ calls[2] = SearchCall(Join(ExtractKeywords(question)), top_k,
                                      KeywordFilter(ExtractKeywords(question)),
                                      calls[2].raw)
             /\ LET m == MergeResults(Search(calls[1].raw),
                                      KeywordSearch(ExtractKeywords(question),
                                                    top_k, calls[2].raw))
                IN IF m.error # ""
                   THEN pc = "raised" /\ error = m.error
                   ELSE pc = "returned" /\ result = SemanticKeywordResult(m.value)
       /\ question_complexity = "complex"
          => /\ pc = "returned"
             /\ Len(calls) = 1
             /\ calls[1].top_k = 15
             /\ calls[1] = SearchCall(question, 15, NoFilter, calls[1].raw)
             /\ result = HierarchicalRag(question, 15, top_k, calls[1].raw)

C10_Witness ==
    /\ pc = "returned"
    /\ strategy = Member(adaptive)
    /\ question_complexity = "complex"
    /\ top_k = 2
    /\ calls[1].top_k = 15
    /\ Len(calls[1].raw.hits) = 3
    /\ Len(result.documents) = 2

\* the turns stored for a session, head first, in the dict and in Redis
TurnsLocal(h, sid) == IF sid \in DOMAIN h THEN h[sid] ELSE <<>>
TurnsRedis(r, sid) ==
    LET items == ListAt(r, ConversationKey(sid))
    IN [i \in 1..Len(items) |-> Loads(items[i])]

\* the turns of a list are in the order newest first
NewestFirst(turns) ==
    \A i, j \in 1..Len(turns) :
        i < j => turns[i].timestamp.iso > turns[j].timestamp.iso

\* the elements of a sequence
Elems(seq) == {seq[i] : i \in 1..Len(seq)}

(***************************************************************************)
(* C12: between the operations on the conversation store, every session's  *)
(* stored list holds at most 10 turns, newest first, the same under both   *)
(* backends; an append puts the new turn at the head and keeps the first   *)
(* 10 turns of the list so obtained, a clear empties the list, and no      *)
(* other step changes a stored list, so that the list is the min(n, 10)    *)
(* turns appended last since the last clear; a read with a limit of 10 or  *)
(* more returns exactly the stored turns (after 11 appends the 10 newest,  *)
(* the first-appended being evicted).                                      *)
(***************************************************************************)
C12_TenNewest ==
    /\ [](MemReady =>
            \A s \in Sessions :
                /\ Len(TurnsLocal(conversation_history, s)) <= 10
                /\ NewestFirst(TurnsLocal(conversation_history, s))
                /\ TurnsRedis(redis, s) = TurnsLocal(conversation_history, s))
    /\ [](pc = "read" /\ limit >= 10 =>
            /\ Elems(history.memory) = Elems(TurnsLocal(conversation_history, session_id))
            /\ Elems(history.redis) = Elems(TurnsRedis(redis, session_id))
            /\ Len(history.memory) = Len(TurnsLocal(conversation_history, session_id))
            /\ Len(history.redis) = Len(TurnsRedis(redis, session_id)))
    /\ [][/\ pc' = "lpush" =>
                LET new == TurnsLocal(conversation_history', session_id')[1] IN
                /\ new.timestamp = IsoFormat(now)
                /\ TurnsLocal(conversation_history', session_id') =
                      Take(<<new>> \o TurnsLocal(conversation_history, session_id'), 10)
                /\ TurnsRedis(redis', session_id') =
                      <<new>> \o TurnsRedis(redis, session_id')
          /\ pc' = "stored" =>
                /\ TurnsRedis(redis', session_id) =
                      Take(TurnsRedis(redis, session_id), 10)
                /\ UNCHANGED conversation_history
          /\ pc' = "cleared" =>
                /\ TurnsLocal(conversation_history', session_id') = <<>>
                /\ TurnsRedis(redis', session_id') = <<>>
          /\ pc' = "read" => UNCHANGED <<redis, conversation_history>>
          /\ \A s \in Sessions \ {session_id'} :
                /\ TurnsLocal(conversation_history', s) =
                      TurnsLocal(conversation_history, s)
                /\ TurnsRedis(redis', s) = TurnsRedis(redis, s)]_vars

C12_Witness ==
    /\ pc = "read"
    /\ session_id = "s1"
    /\ limit = 100
    /\ now = 11
    /\ Len(history.memory) = 10
    /\ Len(history.redis) = 10
    /\ history.memory[1].timestamp = IsoFormat(10)
    /\ history.memory[10].timestamp = IsoFormat(1)
    /\ \A i \in 1..10 : history.memory[i].timestamp # IsoFormat(0)

(***************************************************************************)
(* C13: under either backend a read with a limit >= 0 returns at most      *)
(* limit turns, namely the first limit turns of the session's stored list  *)
(* (newest first), hence nothing for a session never appended to; and a    *)
(* read leaves the store as it is.                                         *)
(***************************************************************************)
C13_ReadPrefix ==
    /\ [](pc = "read" /\ limit >= 0 =>
            /\ Len(history.memory) <= limit
            /\ Len(history.redis) <= limit
            /\ history.memory = Take(TurnsLocal(conversation_history, session_id), limit)
            /\ history.redis = Take(TurnsRedis(redis, session_id), limit))
    /\ [][pc' = "read" => UNCHANGED <<redis, conversation_history>>]_vars

(***************************************************************************)
(* C14: a clear removes the session from the store under both backends,    *)
(* so that a read of that session right after it returns nothing whatever  *)
(* the limit; clearing a session that is not stored (never appended to, or *)
(* cleared already) changes nothing, and a second clear of the same        *)
(* session leaves the store as the first one left it.                      *)
(***************************************************************************)
C14_ClearThenRead ==
    /\ [](pc = "cleared" =>
            /\ session_id \notin DOMAIN conversation_history
            /\ ConversationKey(session_id) \notin DOMAIN redis
            /\ \A n \in Limits :
                  /\ ReadLocal(conversation_history, session_id, n) = <<>>
                  /\ ReadRedis(redis, session_id, n) = <<>>)
    /\ [][/\ (pc = "cleared" /\ pc' = "read" /\ session_id' = session_id)
                => history' = NoHistory
          /\ (pc = "cleared" /\ pc' = "cleared" /\ session_id' = session_id)
                => UNCHANGED <<redis, conversation_history>>
          /\ (pc' = "cleared" /\ session_id' \notin DOMAIN conversation_history)
                => UNCHANGED conversation_history
          /\ (pc' = "cleared" /\ ConversationKey(session_id') \notin DOMAIN redis)
                => UNCHANGED redis]_vars

C14_Witness ==
    /\ pc = "read"
    /\ session_id = "s1"
    /\ limit = 100
    /\ now > MaxOtherTurns
    /\ history = NoHistory
    /\ "s1" \notin DOMAIN conversation_history
    /\ "s2" \in DOMAIN conversation_history

(***************************************************************************)
(* C15: whatever calls were made before, a read returns the same turns in  *)
(* the same order from the instance with Redis and from the instance       *)
(* without.                                                                *)
(***************************************************************************)
C15_Interchangeable ==
    pc = "read" => history.redis = history.memory

\* the attempts of the current call of generate_response that raised
FailedAttempts == {i \in 1..Len(model_calls) : model_calls[i].raises}

(***************************************************************************)
(* C16: generate_response makes at most 3 attempts and every attempt but   *)
(* the last one failed (it stops at the first attempt that does not        *)
(* raise); it has slept 2 s after the first failed attempt and 4 s after   *)
(* the second and never after the third; it returns the text of the        *)
(* attempt that did not raise (the fixed message for an empty text), or,   *)
(* all three attempts having failed, the fixed apology; it returns a       *)
(* non-empty string and raises nothing, and every call of it returns.      *)
(***************************************************************************)
C16_BoundedRetry ==
    /\ [](pc \in {"generate_response", "sleep", "generated"} =>
            LET n == Len(model_calls)
                f == Cardinality(FailedAttempts)
            IN /\ n <= 3
               /\ \A i \in 1..(n - 1) : model_calls[i].raises
               /\ pc # "generated" => f = n
               /\ Len(sleeps) = IF pc = "sleep" THEN f - 1 ELSE Min(f, 2)
               /\ sleeps = [i \in 1..Len(sleeps) |-> 2 * i]
               /\ error = ""
               /\ pc = "generated" =>
                     /\ n >= 1
                     /\ answer # ""
                     /\ IF model_calls[n].raises
                        THEN /\ n = 3
                             /\ answer = "Sorry, I'm experiencing technical difficulties. Please try again later."
                        ELSE answer \in {model_calls[n].text,
                                         "I couldn't generate a response for this question. Please try again."})
    /\ (pc = "generate_response" ~> pc = "generated")

C16_Witness ==
    /\ pc = "generated"
    /\ Len(model_calls) = 3
    /\ Cardinality(FailedAttempts) = 3
    /\ sleeps = <<2, 4>>
    /\ answer = TechnicalDifficulties

\* the request named a strategy that is none of the four, or a top_k
\* outside 1..10
InvalidInput(b) ==
    \/ b.strategy.given /\ b.strategy.value \notin {basic, hierarchical, hybrid, adaptive}
    \/ b.top_k < 1
    \/ b.top_k > 10

\* some query of the store made for the request failed
StoreFailed == \E c \in 1..Len(calls) : calls[c].raw.exc

(***************************************************************************)
(* C11 (as stated): whatever the strategy, execute_rag called by a handler *)
(* (top_k in 1..10, the store answering a query of width n with at most n  *)
(* documents) returns at most top_k documents, and a response of POST      *)
(* /query carries at most top_k sources.                                   *)
(***************************************************************************)
C11_AtMostTopK_AsStated ==
    /\ pc = "returned" => Len(DocsOf(result)) <= top_k
    /\ (pc = "responded" /\ status = 200 /\ endpoint = "/query")
       => Len(response.sources) <= query_request.top_k

(***************************************************************************)
(* C11 (amended): execute_rag returns at most top_k documents under basic  *)
(* and hierarchical retrieval (also when adaptive routes to them) and      *)
(* under hybrid retrieval when no keyword survives, and at most 2 * top_k  *)
(* documents under hybrid retrieval when a keyword survives; a successful  *)
(* response of POST /query or POST /query/strategy carries at most top_k   *)
(* sources.                                                                *)
(***************************************************************************)
C11_AtMostTopK ==
    /\ pc = "returned" =>
          /\ top_k >= 1
          /\ top_k <= 10
          /\ Len(DocsOf(result)) <=
                IF ViaHybrid /\ KeywordStarts(question) # {} THEN 2 * top_k
                ELSE top_k
    /\ (pc = "responded" /\ status = 200 /\ IsApp(endpoint))
       => Len(response.sources) <= query_request.top_k

C11_Witness ==
    /\ pc = "responded"
    /\ status = 200
    /\ endpoint = "/query"
    /\ strategy = Member(hierarchical)
    /\ query_request.top_k = 2
    /\ Len(calls[1].raw.hits) = 3
    /\ Len(response.sources) = 2

(***************************************************************************)
(* C17: when the store's keyword query of hybrid retrieval fails, nothing  *)
(* is raised: hybrid retrieval returns the documents of the semantic       *)
(* query, and the request is not answered with an error.                   *)
(***************************************************************************)
C17_KeywordFailureContained ==
    (Len(calls) = 2 /\ calls[2].raw.exc)
    => /\ pc # "raised"
       /\ error = ""
       /\ DocsOf(result) = HitDocs(calls[1].raw)
       /\ status \in {0, 200}

(***************************************************************************)
(* C18: when a query of the vector store fails, whatever the strategy,     *)
(* execute_rag raises nothing and the handler answers 200 with a non-empty *)
(* answer.                                                                 *)
(***************************************************************************)
C18_StoreFailureDegrades ==
    StoreFailed
    => /\ pc # "raised"
       /\ pc = "responded" => (status = 200 /\ response.answer # "")

(***************************************************************************)
(* C19: on each of the three query endpoints, a request naming an unknown  *)
(* strategy or a top_k outside 1..10 is answered with a 4xx status, and no *)
(* query of the store, no call of the LLM client and no write to the       *)
(* conversation store is made for it.                                      *)
(***************************************************************************)
C19_InvalidInputRejected ==
    (pc # "listening" /\ InvalidInput(body))
    => /\ calls = <<>>
       /\ llm_calls = <<>>
       /\ store_calls = <<>>
       /\ conversation_history \in PriorHistories
       /\ pc = "responded" => (status >= 400 /\ status <= 499)

(***************************************************************************)
(* C20: when execute_rag returned no document, the handler (of either      *)
(* variant) answers 200 with a non-empty answer and has stored exactly one *)
(* turn, for the session of the request, holding that answer.              *)
(***************************************************************************)
C20_ZeroDocuments ==
    (pc = "responded" /\ result.strategy # "" /\ DocsOf(result) = <<>>)
    => /\ status = 200
       /\ response.answer # ""
       /\ Len(store_calls) = 1
       /\ store_calls[1].session_id = session_id
       /\ store_calls[1].answer = response.answer
       /\ session_id \in DOMAIN conversation_history
       /\ conversation_history[session_id][1].answer = response.answer
       /\ conversation_history[session_id][1].question = body.question

\* every attempt of the LLM client so far yielded a text that is not empty
LlmNormal ==
    \A i \in 1..Len(model_calls) :
        ~model_calls[i].raises /\ model_calls[i].text # ""

(***************************************************************************)
(* C21: for each of the four strategy tags, when no query of the store     *)
(* fails and the LLM answers every attempt with a text, POST /query is     *)
(* answered with status 200 and the strategy field of the response is the  *)
(* tag of the request.                                                     *)
(***************************************************************************)
C21_StrategyEcho ==
    (/\ pc = "responded"
     /\ endpoint = "/query"
     /\ IsQueryRequest(body)
     /\ body.strategy.given
     /\ ~StoreFailed
     /\ LlmNormal)
    => /\ status = 200
       /\ response.strategy = body.strategy.value

(***************************************************************************)
(* C22: POST /query/strategy calls execute_rag with the strategy named in  *)
(* the body of the request, whichever of the four tags it is, and a        *)
(* successful response reports that strategy.                              *)
(***************************************************************************)
C22_NamedStrategy ==
    (/\ endpoint = "/query/strategy"
     /\ body.strategy.given
     /\ body.strategy.value \in RAGStrategyValues)
    => /\ pc \in {"execute_rag", "returned", "raised"}
          => strategy = Member(body.strategy.value)
       /\ (pc = "responded" /\ status = 200)
          => response.strategy = body.strategy.value

(***************************************************************************)
(* C26: a request answered with status 200 has stored exactly one turn,    *)
(* made of its question, the answer and the sources of the response, at    *)
(* the head of the list of its session; the turn is stored in the step     *)
(* that answers, so after execute_rag returned and, when the LLM was       *)
(* called, after its answer and after the read of the history for the      *)
(* prompt; a request not answered with 200 has stored nothing and no step  *)
(* of it changes the conversation store.                                   *)
(***************************************************************************)
C26_OneTurnPerSuccess ==
    /\ [](IF pc \in {"responded", "sent"} /\ status = 200
          THEN /\ Len(store_calls) = 1
               /\ store_calls[1] =
                     [session_id |-> session_id, question |-> body.question,
                      answer |-> response.answer, sources |-> response.sources]
               /\ TurnsLocal(conversation_history, session_id) # <<>>
               /\ LET turn == TurnsLocal(conversation_history, session_id)[1]
                  IN /\ turn.question = body.question
                     /\ turn.answer = response.answer
                     /\ turn.sources = response.sources
          ELSE store_calls = <<>>)
    /\ [][conversation_history' # conversation_history
          => /\ pc' = "responded"
             /\ status' = 200
             /\ pc \in {"returned", "generated"}
             /\ result.strategy # ""
             /\ llm_calls # <<>>
                => /\ pc = "generated"
                   /\ response'.answer = answer
                   /\ history.memory =
                         ReadLocal(conversation_history, session_id, 3)
             /\ TurnsLocal(conversation_history', session_id) =
                   Take(<<TurnsLocal(conversation_history', session_id)[1]>>
                        \o TurnsLocal(conversation_history, session_id), 10)]_vars

C26_Witness ==
    /\ pc = "responded"
    /\ status = 200
    /\ endpoint = "/query"
    /\ llm_calls # <<>>
    /\ history.memory # <<>>
    /\ Len(TurnsLocal(conversation_history, "s1")) = 2
    /\ TurnsLocal(conversation_history, "s1")[1].answer = "Generated answer"

(***************************************************************************)
(* C27: for every strategy, each entry of the documents of the result of   *)
(* execute_rag is the text of a document and each entry of its metadatas   *)
(* is the metadata of a document: neither field wraps its entries in       *)
(* another list.                                                           *)
(***************************************************************************)
C27_FlatShape ==
    pc = "returned"
    => /\ \A i \in 1..Len(result.documents) : result.documents[i].py = "str"
       /\ \A i \in 1..Len(result.metadatas) : result.metadatas[i].py = "dict"

(***************************************************************************)
(* C28: when the hybrid merge returns, the cap of its second loop excluded *)
(* no document: the merged documents and metadata are those of the loops   *)
(* run without the cap, that is the semantic list followed by the keyword  *)
(* list with every text kept at its first occurrence only, and their       *)
(* number is at most the sum of the lengths of the two lists.              *)
(***************************************************************************)
C28_CapNeverBinds ==
    (pc = "returned" /\ result.search_type = "semantic_keyword")
    => LET docs1 == HitDocs(calls[1].raw)
           metas1 == HitMetas(calls[1].raw)
           docs2 == HitDocs(calls[2].raw)
           metas2 == HitMetas(calls[2].raw)
           uncapped == MergeLoop(docs2, metas2, 1,
                                 MergeLoop(docs1, metas1, 1, <<>>, FALSE, 0),
                                 FALSE, 0)
           X == docs1 \o docs2
           F == {i \in 1..Len(X) : \A j \in 1..(i - 1) : X[j] # X[i]}
           M == DocsOf(result)
       IN /\ M = [i \in 1..Len(uncapped) |-> uncapped[i].doc]
          /\ MetasOf(result) = [i \in 1..Len(uncapped) |-> uncapped[i].meta]
          /\ Len(M) = Cardinality(F)
          /\ \A i \in F : M[Cardinality({j \in F : j <= i})] = X[i]
          /\ Len(M) <= Len(docs1) + Len(docs2)

C28_Witness ==
    /\ pc = "returned"
    /\ result.search_type = "semantic_keyword"
    /\ calls[1].raw.hits = <<1, 3>>
    /\ calls[2].raw.hits = <<3, 2>>
    /\ Len(DocsOf(result)) = 2
    /\ MetasOf(result) = <<PyDict("m1"), PyDict("m2")>>

(***************************************************************************)
(* C29: a query request calls generate_response of the LLM client at most  *)
(* once, on either handler and on every path, and not before execute_rag   *)
(* returned.                                                               *)
(***************************************************************************)
C29_LlmAtMostOnce ==
    /\ Len(llm_calls) <= 1
    /\ llm_calls # <<>> => result.strategy # ""

(***************************************************************************)
(* C23: the response of GET /metrics holds average_response_time,          *)
(* success_rate and total_requests, whatever was recorded before it,       *)
(* nothing included.                                                       *)
(***************************************************************************)
C23_MetricsKeys ==
    (endpoint = "/metrics" /\ status = 200)
    => {"average_response_time", "success_rate", "total_requests"}
          \subseteq DOMAIN response

(***************************************************************************)
(* C30: once a request of the application of src/app/main.py is answered,  *)
(* the metrics have counted every answered request exactly once:           *)
(* success_count + error_count is the number of requests answered,         *)
(* error_count the number of those answered with a status of 400 or more,  *)
(* and request_times holds the process times of the last 100 of them (of   *)
(* all of them while there are fewer), in their order.                     *)
(***************************************************************************)
C30_EveryRequestOnce ==
    pc \in {"listening", "sent"}
    => LET N == Len(completed)
           kept == Min(N, MetricsWindow)
       IN /\ metrics.success_count + metrics.error_count = N
          /\ metrics.error_count =
                Cardinality({i \in 1..N : completed[i].status >= 400})
          /\ Len(metrics.request_times) = kept
          /\ Len(metrics.request_times) <= MetricsWindow
          /\ \A i \in 1..kept :
                metrics.request_times[i] = completed[N - kept + i].process_time

\* the turn task t appended is in the list stored for its session
KeptLocal(t) ==
    \E i \in 1..Len(TurnsLocal(conversation_history, tasks[t].session_id)) :
        TurnsLocal(conversation_history, tasks[t].session_id)[i].timestamp
            = IsoFormat(tasks[t].timestamp)
KeptRedis(t) ==
    \E i \in 1..Len(TurnsRedis(redis, tasks[t].session_id)) :
        TurnsRedis(redis, tasks[t].session_id)[i].timestamp
            = IsoFormat(tasks[t].timestamp)

(***************************************************************************)
(* C24: with two appends to one session running concurrently, on either    *)
(* backend, no read returns more than 10 turns, and once both appends are  *)
(* done (fewer than 9 turns stored before them, the session not cleared    *)
(* meanwhile) the turns of both are in the stored list.                    *)
(***************************************************************************)
C24_ConcurrentAppends ==
    /\ Len(history.redis) <= 10
    /\ Len(history.memory) <= 10
    /\ (/\ tasks["t1"].at = "done"
        /\ tasks["t2"].at = "done"
        /\ tasks["t2"].session_id = tasks["t1"].session_id
        /\ tasks["t3"].at = "start" \/ tasks["t3"].session_id # "s1"
        /\ now - 3 < 9)
       => \A t \in {"t1", "t2"} : KeptLocal(t) /\ KeptRedis(t)

(***************************************************************************)
(* C25: a step of an append or of a clear for one session leaves the list  *)
(* stored for every other session as it was, on both backends, however     *)
(* the steps of the tasks are interleaved.                                 *)
(***************************************************************************)
C25_OtherSessionsUntouched ==
    [][\A sid \in Sessions :
          sid # session_id'
          => /\ TurnsLocal(conversation_history', sid)
                   = TurnsLocal(conversation_history, sid)
             /\ ListAt(redis', ConversationKey(sid))
                   = ListAt(redis, ConversationKey(sid))]_vars

C25_Witness ==
    /\ pc = "concurrent"
    /\ tasks["t1"].at = "lpush"
    /\ tasks["t2"].session_id = "s2"
    /\ tasks["t2"].at = "done"
    /\ tasks["t3"].session_id = "s1"
    /\ tasks["t3"].at = "done"
    /\ Len(TurnsLocal(conversation_history, "s2")) = 2
    /\ Len(TurnsRedis(redis, "s2")) = 2
    /\ TurnsLocal(conversation_history, "s1") = <<>>

====
